---- MODULE Spec2Model ----
(***************************************************************************)
(* Model of the flow engine of flowtbag (src/src/flowtbag/flow.py): the    *)
(* TCP connection state machine STATE_TCP and the Flow class (constructor, *)
(* update_status, get_last_time, add, checkidle, export / __str__).        *)
(*                                                                         *)
(* Time is counted in ticks, TicksPerSecond of them to the second, so the  *)
(* source's float seconds become integers.  A Python exception is modelled *)
(* by the name of its class in the field err of an operator's result;      *)
(* "none" means the call returned normally.                                *)
(***************************************************************************)
EXTENDS Integers, Sequences, FiniteSets, TLC

VARIABLES
    flow,      \* the Flow object (a record of its attributes), or NoFlow
    phase,     \* "none" (no object yet), "live", "failed" (an exception escaped)
    ret,       \* value returned by the last call of add, -1 when there is none
    err,       \* class of the exception raised by the last call, or "none"
    lastpkt,   \* the packet handed to the last call of the constructor or add
    clock,     \* time of the latest packet the decoder has delivered
    nadds,     \* number of calls of add made on the flow
    nexports,  \* number of calls of export made on the flow
    hist,      \* history of the calls (ghost state, read by the properties only)
    unit,      \* call record of STATE_TCP.update when it is exercised on its own
    s3,        \* number of packets of scenario S3 (or S4) fed so far
    ftable,    \* the FlowTable: live flows by key, next id, ids sent to the sink
    ningest,   \* number of packets the FlowTable has been handed
    flow2      \* the Flow object of Flow.py fed the same packets: its last result

vars == <<flow, phase, ret, err, lastpkt, clock, nadds, nexports, hist, unit, s3,
          ftable, ningest, flow2>>

-----------------------------------------------------------------------------
(* Bounds of the model.                                                    *)

TicksPerSecond == 10   \* resolution of the clock
MaxPackets == 3        \* calls of add on one flow
MaxExports == 2        \* calls of export on one flow
MaxGap == 2            \* largest gap, in ticks, between packets of scenario S3
MaxIngest == 3         \* packets handed to the FlowTable

-----------------------------------------------------------------------------
(* Settings and non-configurables, flow.py lines 29-38.                    *)

FLOW_TIMEOUT == 600 * TicksPerSecond
IDLE_THRESHOLD == 1 * TicksPerSecond

TCP_FIN == 1
TCP_SYN == 2
TCP_RST == 4
TCP_PSH == 8
TCP_ACK == 16
TCP_URG == 32

-----------------------------------------------------------------------------
(* Python's integer operator & on flag bytes.                              *)

RECURSIVE BitAnd(_, _)
BitAnd(a, b) ==
    IF a = 0 \/ b = 0 THEN 0
    ELSE (a % 2) * (b % 2) + 2 * BitAnd(a \div 2, b \div 2)

(* tcp_set(find, flags): ((find & flags) == find).                         *)
tcp_set(find, flags) == BitAnd(find, flags) = find

-----------------------------------------------------------------------------
(* The TCP connection state machine.  A state object is modelled by the    *)
(* name of its class.                                                      *)

TcpStates == {"STATE_TCP_START", "STATE_TCP_SYN", "STATE_TCP_SYNACK",
              "STATE_TCP_ESTABLISHED", "STATE_TCP_FIN", "STATE_TCP_CLOSED"}

(* The class attribute tr of each state: the list of (condition, target)  *)
(* pairs, here with the conditions already applied to (flags, dir, pdir).  *)
tr(self, flags, dir, pdir) ==
    CASE self = "STATE_TCP_START" ->
            <<[f |-> tcp_set(flags, TCP_SYN) /\ dir = pdir,
               s |-> "STATE_TCP_SYN"]>>
      [] self = "STATE_TCP_SYN" ->
            <<[f |-> tcp_set(flags, TCP_SYN) /\ tcp_set(flags, TCP_ACK)
                        /\ dir # pdir,
               s |-> "STATE_TCP_SYNACK"]>>
      [] self = "STATE_TCP_SYNACK" ->
            <<[f |-> tcp_set(flags, TCP_ACK) /\ dir = pdir,
               s |-> "STATE_TCP_ESTABLISHED"]>>
      [] self = "STATE_TCP_ESTABLISHED" -> <<>>
      [] self = "STATE_TCP_FIN" ->
            <<[f |-> tcp_set(flags, TCP_ACK) /\ dir # pdir,
               s |-> "STATE_TCP_CLOSED"]>>
      [] self = "STATE_TCP_CLOSED" -> <<>>

(* STATE_TCP.update with the mask of the ACK flag in the test that closes   *)
(* the connection.                                                         *)
STATE_TCP_update_ackmask(self, flags, dir, pdir) ==
    IF tcp_set(flags, TCP_ACK) THEN "STATE_TCP_CLOSED"
    ELSE IF tcp_set(flags, TCP_FIN) /\ dir = pdir THEN "STATE_TCP_FIN"
    ELSE LET all == tr(self, flags, dir, pdir)
             next_state == SelectSeq(all, LAMBDA e : e.f)
         IN  IF Len(next_state) > 0 THEN next_state[1].s ELSE self

(* STATE_TCP.update(self, flags, dir, _pdir).                              *)
STATE_TCP_update(self, flags, dir, pdir) ==
    IF tcp_set(flags, TCP_RST) THEN "STATE_TCP_CLOSED"
    ELSE IF tcp_set(flags, TCP_FIN) /\ dir = pdir THEN "STATE_TCP_FIN"
    ELSE LET all == tr(self, flags, dir, pdir)
             next_state == SelectSeq(all, LAMBDA e : e.f)
         IN  IF Len(next_state) > 0 THEN next_state[1].s ELSE self

-----------------------------------------------------------------------------
(* Packets: the decoded field map the engine reads (pkt['time'], ...).     *)

(* pkt[key] of a Python dict raises KeyError when the key is absent.       *)
HasKey(pkt, key) == key \in DOMAIN pkt

NoPkt == [time |-> -1]

(* Results of the modelled methods: the object after the call, the value   *)
(* returned (add only) and the exception that escaped, if any.             *)
Return(self, value) == [f |-> self, ret |-> value, err |-> "none"]
Raise(self, exc) == [f |-> self, ret |-> -1, err |-> exc]

-----------------------------------------------------------------------------
(* class Flow.                                                             *)

NoFlow == [id |-> 0]

(* Flow.update_tcp_state(self, pkt).                                       *)
update_tcp_state(self, pkt) ==
    LET c == STATE_TCP_update(self.cstate, pkt.flags, "f", self.pdir)
        s == STATE_TCP_update(self.sstate, pkt.flags, "b", self.pdir)
    IN  [self EXCEPT !.cstate = c, !.sstate = s]

(* update_status without the test of the client state: any TCP packet with *)
(* payload marks the flow valid.                                           *)
update_status_anystate(self, pkt) ==
    IF pkt.proto = 17 THEN
        IF self.valid THEN Return(self, -1)
        ELSE LET s1 == IF pkt.len > 8 THEN [self EXCEPT !.has_data = "True"]
                       ELSE self
             IN  IF s1.has_data = "unset" THEN Raise(s1, "AttributeError")
                 ELSE IF s1.a_total_bpackets > 0
                      THEN Return([s1 EXCEPT !.valid = TRUE], -1)
                      ELSE Return(s1, -1)
    ELSE IF pkt.proto = 6 THEN
        LET s1 == IF pkt.len > pkt.iphlen + pkt.prhlen
                  THEN [self EXCEPT !.valid = TRUE] ELSE self
        IN  Return(update_tcp_state(s1, pkt), -1)
    ELSE Raise(self, "NotImplementedError")

(* update_status deciding the validity of a UDP flow anew from each        *)
(* packet: has_data follows the current packet, valid follows has_data.    *)
update_status_recheck(self, pkt) ==
    IF pkt.proto = 17 THEN
        LET s1 == [self EXCEPT !.has_data =
                      IF pkt.len > 8 THEN "True" ELSE "False"]
        IN  Return([s1 EXCEPT !.valid = (s1.has_data = "True"
                                          /\ s1.a_total_bpackets > 0)], -1)
    ELSE IF pkt.proto = 6 THEN
        IF self.cstate = "STATE_TCP_ESTABLISHED" THEN
            IF ~HasKey(pkt, "prlen") THEN Raise(self, "KeyError")
            ELSE LET hlen == pkt.iphlen + pkt.prlen
                     s1 == IF pkt.len > hlen THEN [self EXCEPT !.valid = TRUE]
                           ELSE self
                 IN  Return(update_tcp_state(s1, pkt), -1)
        ELSE Return(update_tcp_state(self, pkt), -1)
    ELSE Raise(self, "NotImplementedError")

(* update_status marking a UDP flow valid as soon as it has data, without  *)
(* the test for a backward packet.                                         *)
update_status_nobackward(self, pkt) ==
    IF pkt.proto = 17 THEN
        IF self.valid THEN Return(self, -1)
        ELSE LET s1 == IF pkt.len > 8 THEN [self EXCEPT !.has_data = "True"]
                       ELSE self
             IN  IF s1.has_data = "unset" THEN Raise(s1, "AttributeError")
                 ELSE Return([s1 EXCEPT !.valid = TRUE], -1)
    ELSE IF pkt.proto = 6 THEN
        IF self.cstate = "STATE_TCP_ESTABLISHED" THEN
            IF ~HasKey(pkt, "prlen") THEN Raise(self, "KeyError")
            ELSE LET hlen == pkt.iphlen + pkt.prlen
                     s1 == IF pkt.len > hlen THEN [self EXCEPT !.valid = TRUE]
                           ELSE self
                 IN  Return(update_tcp_state(s1, pkt), -1)
        ELSE Return(update_tcp_state(self, pkt), -1)
    ELSE Raise(self, "NotImplementedError")

(* Flow.update_status(self, pkt).  The attribute has_data exists only once *)
(* a packet longer than 8 bytes has set it; reading it before that raises  *)
(* AttributeError.  The TCP branch reads pkt['prlen'].                     *)
update_status(self, pkt) ==
    IF pkt.proto = 17 THEN
        IF self.valid THEN Return(self, -1)
        ELSE LET s1 == IF pkt.len > 8 THEN [self EXCEPT !.has_data = "True"]
                       ELSE self
             IN  IF s1.has_data = "unset" THEN Raise(s1, "AttributeError")
                 ELSE IF s1.a_total_bpackets > 0
                      THEN Return([s1 EXCEPT !.valid = TRUE], -1)
                      ELSE Return(s1, -1)
    ELSE IF pkt.proto = 6 THEN
        IF self.cstate = "STATE_TCP_ESTABLISHED" THEN
            IF ~HasKey(pkt, "prlen") THEN Raise(self, "KeyError")
            ELSE LET hlen == pkt.iphlen + pkt.prlen
                     s1 == IF pkt.len > hlen THEN [self EXCEPT !.valid = TRUE]
                           ELSE self
                 IN  Return(update_tcp_state(s1, pkt), -1)
        ELSE Return(update_tcp_state(self, pkt), -1)
    ELSE Raise(self, "NotImplementedError")

(* The attribute assignments of Flow.__init__ before its final call of     *)
(* update_status.  Times that Python leaves as 0 are 0 here; _cstate and   *)
(* _sstate exist for TCP only, has_data and burg_cnt are never assigned.   *)
Flow_fields(pkt, id) ==
    [id |-> id,
     first_packet |-> pkt,
     valid |-> FALSE,
     pdir |-> "f",
     first |-> pkt.time,
     flast |-> pkt.time,
     blast |-> 0,
     a_srcip |-> pkt.srcip,
     a_srcport |-> pkt.srcport,
     a_dstip |-> pkt.dstip,
     a_dstport |-> pkt.dstport,
     a_proto |-> pkt.proto,
     dscp |-> pkt.dscp,
     a_total_fpackets |-> 1,
     a_total_fvolume |-> pkt.len,
     a_total_bpackets |-> 0,
     a_total_bvolume |-> 0,
     a_min_fpktl |-> pkt.len,
     a_mean_fpktl |-> 0,
     a_max_fpktl |-> pkt.len,
     a_std_fpktl |-> 0,
     c_fpktl_sqsum |-> pkt.len * pkt.len,
     a_min_bpktl |-> 0,
     a_mean_bpktl |-> 0,
     a_max_bpktl |-> 0,
     a_std_bpktl |-> 0,
     c_bpktl_sqsum |-> 0,
     a_min_fiat |-> 0,
     a_mean_fiat |-> 0,
     a_max_fiat |-> 0,
     a_std_fiat |-> 0,
     c_fiat_sum |-> 0,
     c_fiat_sqsum |-> 0,
     c_fiat_count |-> 0,
     a_min_biat |-> 0,
     a_mean_biat |-> 0,
     a_max_biat |-> 0,
     a_std_biat |-> 0,
     c_biat_sum |-> 0,
     c_biat_sqsum |-> 0,
     c_biat_count |-> 0,
     a_duration |-> 0,
     a_min_active |-> 0,
     a_mean_active |-> 0,
     a_max_active |-> 0,
     a_std_active |-> 0,
     c_active_start |-> pkt.time,
     c_active_time |-> 0,
     c_active_sqsum |-> 0,
     c_active_count |-> 0,
     a_min_idle |-> 0,
     a_mean_idle |-> 0,
     a_max_idle |-> 0,
     a_std_idle |-> 0,
     c_idle_time |-> 0,
     c_idle_sqsum |-> 0,
     c_idle_count |-> 0,
     a_sflow_fpackets |-> 0,
     a_sflow_fbytes |-> 0,
     a_sflow_bpackets |-> 0,
     a_sflow_bbytes |-> 0,
     cstate |-> IF pkt.proto = 6 THEN "STATE_TCP_START" ELSE "unset",
     sstate |-> IF pkt.proto = 6 THEN "STATE_TCP_START" ELSE "unset",
     a_fpsh_cnt |-> IF pkt.proto = 6 /\ tcp_set(pkt.flags, TCP_PSH)
                    THEN 1 ELSE 0,
     a_furg_cnt |-> IF pkt.proto = 6 /\ tcp_set(pkt.flags, TCP_URG)
                    THEN 1 ELSE 0,
     a_bpsh_cnt |-> 0,
     a_burg_cnt |-> 0,
     a_total_fhlen |-> pkt.iphlen + pkt.prhlen,
     a_total_bhlen |-> 0,
     has_data |-> "unset",
     burg_cnt |-> "unset"]

(* Flow.__init__(self, pkt, id).                                           *)
Flow_init(pkt, id) == update_status(Flow_fields(pkt, id), pkt)

(* Flow.get_last_time(self).                                               *)
get_last_time(self) ==
    IF self.blast = 0 THEN self.flast
    ELSE IF self.flast = 0 THEN self.blast
    ELSE IF self.flast > self.blast THEN self.flast ELSE self.blast

(* The sub-flow boundary block closing the active burst at now instead of  *)
(* at the previous packet's time.                                          *)
idle_boundary_now(self, now, last, diff) ==
    LET adiff == now - self.c_active_start
    IN  [self EXCEPT
            !.a_max_idle = IF diff > @ THEN diff ELSE @,
            !.a_min_idle = IF diff < @ \/ @ = 0 THEN diff ELSE @,
            !.c_idle_time = @ + diff,
            !.c_idle_sqsum = @ + diff * diff,
            !.c_idle_count = @ + 1,
            !.a_max_active = IF adiff > @ THEN adiff ELSE @,
            !.a_min_active = IF adiff < @ \/ @ = 0 THEN adiff ELSE @,
            !.c_active_time = @ + adiff,
            !.c_active_sqsum = @ + adiff * adiff,
            !.c_active_count = @ + 1,
            !.flast = 0,
            !.blast = 0,
            !.c_active_start = now]

(* The boundary block recording the idle period only, without closing the  *)
(* active burst.                                                           *)
idle_boundary_idleonly(self, now, last, diff) ==
    [self EXCEPT
        !.a_max_idle = IF diff > @ THEN diff ELSE @,
        !.a_min_idle = IF diff < @ \/ @ = 0 THEN diff ELSE @,
        !.c_idle_time = @ + diff,
        !.c_idle_sqsum = @ + diff * diff,
        !.c_idle_count = @ + 1,
        !.flast = 0,
        !.blast = 0,
        !.c_active_start = now]

(* The boundary block leaving the start of the active burst where it was.  *)
idle_boundary_keepstart(self, now, last, diff) ==
    LET adiff == last - self.c_active_start
    IN  [self EXCEPT
            !.a_max_idle = IF diff > @ THEN diff ELSE @,
            !.a_min_idle = IF diff < @ \/ @ = 0 THEN diff ELSE @,
            !.c_idle_time = @ + diff,
            !.c_idle_sqsum = @ + diff * diff,
            !.c_idle_count = @ + 1,
            !.a_max_active = IF adiff > @ THEN adiff ELSE @,
            !.a_min_active = IF adiff < @ \/ @ = 0 THEN adiff ELSE @,
            !.c_active_time = @ + adiff,
            !.c_active_sqsum = @ + adiff * adiff,
            !.c_active_count = @ + 1,
            !.flast = 0,
            !.blast = 0]

(* The boundary block leaving the last-packet times of both directions as  *)
(* they were.                                                              *)
idle_boundary_keeplast(self, now, last, diff) ==
    LET adiff == last - self.c_active_start
    IN  [self EXCEPT
            !.a_max_idle = IF diff > @ THEN diff ELSE @,
            !.a_min_idle = IF diff < @ \/ @ = 0 THEN diff ELSE @,
            !.c_idle_time = @ + diff,
            !.c_idle_sqsum = @ + diff * diff,
            !.c_idle_count = @ + 1,
            !.a_max_active = IF adiff > @ THEN adiff ELSE @,
            !.a_min_active = IF adiff < @ \/ @ = 0 THEN adiff ELSE @,
            !.c_active_time = @ + adiff,
            !.c_active_sqsum = @ + adiff * adiff,
            !.c_active_count = @ + 1,
            !.c_active_start = now]

(* The sub-flow boundary block of Flow.add (if diff > IDLE_THRESHOLD):     *)
(* closes an idle period of length diff and the active burst that ended at *)
(* last, then zeroes both last-packet times.                               *)
idle_boundary(self, now, last, diff) ==
    LET adiff == last - self.c_active_start
    IN  [self EXCEPT
            !.a_max_idle = IF diff > @ THEN diff ELSE @,
            !.a_min_idle = IF diff < @ \/ @ = 0 THEN diff ELSE @,
            !.c_idle_time = @ + diff,
            !.c_idle_sqsum = @ + diff * diff,
            !.c_idle_count = @ + 1,
            !.a_max_active = IF adiff > @ THEN adiff ELSE @,
            !.a_min_active = IF adiff < @ \/ @ = 0 THEN adiff ELSE @,
            !.c_active_time = @ + adiff,
            !.c_active_sqsum = @ + adiff * adiff,
            !.c_active_count = @ + 1,
            !.flast = 0,
            !.blast = 0,
            !.c_active_start = now]

(* The forward branch of Flow.add (if self._pdir == "f").                  *)
add_forward(self, pkt, now) ==
    LET len == pkt.len
        hlen == pkt.iphlen + pkt.prhlen
        s1 == [self EXCEPT
                 !.a_min_fpktl = IF len < @ \/ @ = 0 THEN len ELSE @,
                 !.a_max_fpktl = IF len > @ THEN len ELSE @,
                 !.a_total_fvolume = @ + len,
                 !.c_fpktl_sqsum = @ + len * len,
                 !.a_total_fpackets = @ + 1,
                 !.a_total_fhlen = @ + hlen]
        diff == now - s1.flast
        s2 == IF s1.flast > 0
              THEN [s1 EXCEPT
                      !.a_min_fiat = IF diff < @ \/ @ = 0 THEN diff ELSE @,
                      !.a_max_fiat = IF diff > @ THEN diff ELSE @,
                      !.c_fiat_sum = @ + diff,
                      !.c_fiat_sqsum = @ + diff * diff,
                      !.c_fiat_count = @ + 1]
              ELSE s1
        s3a == IF pkt.proto = 6 /\ tcp_set(pkt.flags, TCP_PSH)
               THEN [s2 EXCEPT !.a_fpsh_cnt = @ + 1] ELSE s2
        s4 == IF pkt.proto = 6 /\ tcp_set(pkt.flags, TCP_URG)
              THEN [s3a EXCEPT !.a_furg_cnt = @ + 1] ELSE s3a
    IN  Return([s4 EXCEPT !.flast = now], -1)

(* The backward branch adding the header length to the backward volume.    *)
add_backward_hlen(self, pkt, now) ==
    LET len == pkt.len
        hlen == pkt.iphlen + pkt.prhlen
        s0 == IF self.blast = 0 /\ self.dscp = 0
              THEN [self EXCEPT !.dscp = pkt.dscp] ELSE self
        s1 == [s0 EXCEPT
                 !.a_min_bpktl = IF len < @ \/ @ = 0 THEN len ELSE @,
                 !.a_max_bpktl = IF len > @ THEN len ELSE @,
                 !.a_total_bvolume = @ + hlen,
                 !.c_bpktl_sqsum = @ + len * len,
                 !.a_total_bpackets = @ + 1,
                 !.a_total_bhlen = @ + hlen]
        diff == now - s1.blast
        s2 == IF s1.blast > 0
              THEN [s1 EXCEPT
                      !.a_min_biat = IF diff < @ \/ @ = 0 THEN diff ELSE @,
                      !.a_max_biat = IF diff > @ THEN diff ELSE @,
                      !.c_biat_sum = @ + diff,
                      !.c_biat_sqsum = @ + diff * diff,
                      !.c_biat_count = @ + 1]
              ELSE s1
        s3a == IF pkt.proto = 6 /\ tcp_set(pkt.flags, TCP_PSH)
               THEN [s2 EXCEPT !.a_bpsh_cnt = @ + 1] ELSE s2
    IN  IF pkt.proto = 6 /\ tcp_set(pkt.flags, TCP_URG)
        THEN IF s3a.burg_cnt = "unset" THEN Raise(s3a, "AttributeError")
             ELSE Return([s3a EXCEPT !.burg_cnt = @ + 1, !.blast = now], -1)
        ELSE Return([s3a EXCEPT !.blast = now], -1)

(* The backward branch of Flow.add.  Its URG statement increments          *)
(* self.burg_cnt, an attribute no statement ever assigns.                  *)
add_backward(self, pkt, now) ==
    LET len == pkt.len
        hlen == pkt.iphlen + pkt.prhlen
        s0 == IF self.blast = 0 /\ self.dscp = 0
              THEN [self EXCEPT !.dscp = pkt.dscp] ELSE self
        s1 == [s0 EXCEPT
                 !.a_min_bpktl = IF len < @ \/ @ = 0 THEN len ELSE @,
                 !.a_max_bpktl = IF len > @ THEN len ELSE @,
                 !.a_total_bvolume = @ + len,
                 !.c_bpktl_sqsum = @ + len * len,
                 !.a_total_bpackets = @ + 1,
                 !.a_total_bhlen = @ + hlen]
        diff == now - s1.blast
        s2 == IF s1.blast > 0
              THEN [s1 EXCEPT
                      !.a_min_biat = IF diff < @ \/ @ = 0 THEN diff ELSE @,
                      !.a_max_biat = IF diff > @ THEN diff ELSE @,
                      !.c_biat_sum = @ + diff,
                      !.c_biat_sqsum = @ + diff * diff,
                      !.c_biat_count = @ + 1]
              ELSE s1
        s3a == IF pkt.proto = 6 /\ tcp_set(pkt.flags, TCP_PSH)
               THEN [s2 EXCEPT !.a_bpsh_cnt = @ + 1] ELSE s2
    IN  IF pkt.proto = 6 /\ tcp_set(pkt.flags, TCP_URG)
        THEN IF s3a.burg_cnt = "unset" THEN Raise(s3a, "AttributeError")
             ELSE Return([s3a EXCEPT !.burg_cnt = @ + 1, !.blast = now], -1)
        ELSE Return([s3a EXCEPT !.blast = now], -1)

(* The return statement of Flow.add.                                       *)
add_result(self, pkt) ==
    IF pkt.proto = 6 /\ self.cstate = "STATE_TCP_CLOSED"
                     /\ self.sstate = "STATE_TCP_CLOSED"
    THEN 1 ELSE 0

(* Flow.add with its two early returns decided by the caller: expired is   *)
(* the test that rejects the packet, reordered the test that ignores it.   *)
add_with_tests(self, pkt, expired, reordered) ==
    LET now == pkt.time
        last == get_last_time(self)
        diff == now - last
    IN  IF expired THEN Return(self, 2)
        ELSE IF ~(now >= self.first) THEN Raise(self, "AssertionError")
        ELSE IF reordered THEN Return(self, 0)
        ELSE
          LET s1 == [self EXCEPT !.pdir =
                        IF pkt.srcip = self.first_packet.srcip
                        THEN "f" ELSE "b"]
              s2 == IF diff > IDLE_THRESHOLD
                    THEN idle_boundary(s1, now, last, diff) ELSE s1
              r3 == IF s2.pdir = "f" THEN add_forward(s2, pkt, now)
                    ELSE add_backward(s2, pkt, now)
              r4 == update_status(r3.f, pkt)
          IN  IF r3.err # "none" THEN r3
              ELSE IF r4.err # "none" THEN r4
              ELSE Return(r4.f, add_result(r4.f, pkt))

(* add without the early return on a reordered packet.                     *)
add_noreorder(self, pkt) ==
    add_with_tests(self, pkt,
                   pkt.time - get_last_time(self) > FLOW_TIMEOUT, FALSE)

(* add rejecting a packet already at a gap of exactly FLOW_TIMEOUT.        *)
add_ge(self, pkt) ==
    add_with_tests(self, pkt,
                   pkt.time - get_last_time(self) >= FLOW_TIMEOUT,
                   pkt.time < get_last_time(self))

(* Flow.add(self, pkt).                                                    *)
add(self, pkt) ==
    LET now == pkt.time
        last == get_last_time(self)
        diff == now - last
    IN  IF diff > FLOW_TIMEOUT THEN Return(self, 2)
        ELSE IF ~(now >= self.first) THEN Raise(self, "AssertionError")
        ELSE IF now < last THEN Return(self, 0)
        ELSE
          LET s1 == [self EXCEPT !.pdir =
                        IF pkt.srcip = self.first_packet.srcip
                        THEN "f" ELSE "b"]
              s2 == IF diff > IDLE_THRESHOLD
                    THEN idle_boundary(s1, now, last, diff) ELSE s1
              r3 == IF s2.pdir = "f" THEN add_forward(s2, pkt, now)
                    ELSE add_backward(s2, pkt, now)
              r4 == update_status(r3.f, pkt)
          IN  IF r3.err # "none" THEN r3
              ELSE IF r4.err # "none" THEN r4
              ELSE Return(r4.f, add_result(r4.f, pkt))

(* Flow.checkidle(self, time).                                             *)
checkidle(self, time) == time - get_last_time(self) > FLOW_TIMEOUT

(* stddev(sqsum, sum, count) on integer arguments (the packet lengths):    *)
(* Python 2 divides integers by flooring.  The value math.sqrt(r) is kept  *)
(* as the record [sqrt |-> r] of its radicand.                             *)
stddev(sqsum, sum, count) ==
    [sqrt |-> (sqsum - ((sum * sum) \div count)) \div (count - 1)]

(* stddev(sqsum, sum, count) on float arguments (the time samples): the    *)
(* radicand (sqsum - sum^2 / count) / (count - 1) as the exact fraction    *)
(* <<numerator, denominator>>.                                             *)
stddev_float(sqsum, sum, count) ==
    [sqrt |-> <<count * sqsum - sum * sum, count * (count - 1)>>]

(* The float quotient a / b as the fraction <<a, b>>.                      *)
fdiv(a, b) == <<a, b>>

(* Flow.__str__(self): closes the last active burst, computes the derived  *)
(* attributes and formats the record.                                      *)
Flow_str(self) ==
    LET diff == get_last_time(self) - self.c_active_start
        s1 == [self EXCEPT
                 !.a_max_active = IF diff > @ THEN diff ELSE @,
                 !.a_min_active = IF diff < @ \/ @ = 0 THEN diff ELSE @,
                 !.c_active_time = @ + diff,
                 !.c_active_sqsum = @ + diff * diff,
                 !.c_active_count = @ + 1]
        s2 == [s1 EXCEPT
                 !.a_mean_fpktl = s1.a_total_fvolume \div s1.a_total_fpackets,
                 !.a_std_fpktl =
                     IF s1.a_total_fpackets > 1
                     THEN stddev(s1.c_fpktl_sqsum, s1.a_total_fvolume,
                                 s1.a_total_fpackets)
                     ELSE 0,
                 !.a_mean_bpktl =
                     IF s1.a_total_bpackets > 0
                     THEN s1.a_total_bvolume \div s1.a_total_bpackets
                     ELSE -1,
                 !.a_std_bpktl =
                     IF s1.a_total_bpackets > 1
                     THEN stddev(s1.c_bpktl_sqsum, s1.a_total_bvolume,
                                 s1.a_total_bpackets)
                     ELSE 0,
                 !.a_mean_fiat =
                     IF s1.c_fiat_count > 0
                     THEN fdiv(s1.c_fiat_sum, s1.c_fiat_count) ELSE 0,
                 !.a_std_fiat =
                     IF s1.c_fiat_count > 1
                     THEN stddev_float(s1.c_fiat_sqsum, s1.c_fiat_sum,
                                       s1.c_fiat_count)
                     ELSE 0,
                 !.a_mean_biat =
                     IF s1.c_biat_count > 0
                     THEN fdiv(s1.c_biat_sum, s1.c_biat_count) ELSE 0,
                 !.a_std_biat =
                     IF s1.c_biat_count > 1
                     THEN stddev_float(s1.c_biat_sqsum, s1.c_biat_sum,
                                       s1.c_biat_count)
                     ELSE 0]
        s3a == [s2 EXCEPT
                 !.a_mean_active = fdiv(s2.c_active_time, s2.c_active_count),
                 !.a_std_active =
                     IF s2.c_active_count > 1
                     THEN stddev_float(s2.c_active_sqsum, s2.c_active_time,
                                       s2.c_active_count)
                     ELSE 0,
                 !.a_mean_idle =
                     IF s2.c_idle_count > 0
                     THEN fdiv(s2.c_idle_time, s2.c_idle_count) ELSE 0,
                 !.a_std_idle =
                     IF s2.c_idle_count > 1
                     THEN stddev_float(s2.c_idle_sqsum, s2.c_idle_time,
                                       s2.c_idle_count)
                     ELSE 0,
                 !.a_sflow_fpackets = s2.a_total_fpackets \div s2.c_active_count,
                 !.a_sflow_fbytes = s2.a_total_fvolume \div s2.c_active_count,
                 !.a_sflow_bpackets = s2.a_total_bpackets \div s2.c_active_count,
                 !.a_sflow_bbytes = s2.a_total_bvolume \div s2.c_active_count,
                 !.a_duration = get_last_time(s2) - s2.first]
    IN  IF ~(s1.a_total_fpackets > 0) THEN Raise(s1, "AssertionError")
        ELSE IF ~(s2.c_active_count > 0) THEN Raise(s2, "Exception")
        ELSE IF ~(s3a.a_duration > 0) THEN Raise(s3a, "AssertionError")
        ELSE Return(s3a, -1)

(* export formatting the flow whether it is valid or not.                  *)
export_always(self) == Flow_str(self)

(* Flow.export(self).                                                      *)
export(self) ==
    IF self.valid THEN Flow_str(self) ELSE Return(self, -1)

-----------------------------------------------------------------------------
(* Inputs.  A conversation is the first packet's endpoints; the other      *)
(* packets of the flow carry them as they are or swapped.                  *)

Conversations ==
    {[srcip |-> "A", srcport |-> 1, dstip |-> "B", dstport |-> 2]}

FirstTimes == {0, 7}

(* Steps of the decoder's clock from one packet to the next; -1 is a       *)
(* packet delivered out of order.                                          *)
TimeSteps == {-1, 0, IDLE_THRESHOLD, IDLE_THRESHOLD + 1,
              FLOW_TIMEOUT, FLOW_TIMEOUT + 1}

(* Length and flag byte of the packets fed: UDP packets without and with   *)
(* data, TCP packets without payload (8 bytes) and with (60 bytes).        *)
DataShape == [len |-> 60, flags |-> TCP_PSH + TCP_ACK]

Shapes(proto) ==
    IF proto = 17
    THEN {[len |-> 8, flags |-> 0], [len |-> 60, flags |-> 0]}
    ELSE {[len |-> 8, flags |-> 0], [len |-> 8, flags |-> TCP_FIN],
          [len |-> 8, flags |-> TCP_SYN], [len |-> 8, flags |-> TCP_RST],
          [len |-> 8, flags |-> TCP_ACK], [len |-> 60, flags |-> TCP_URG],
          DataShape}

(* What add is fed: for UDP every step of the clock with every shape, for  *)
(* TCP every step with a data packet and every shape at the clock's time.  *)
AddInputs(proto) ==
    IF proto = 17
    THEN [d : TimeSteps, swapped : BOOLEAN, shape : Shapes(17)]
    ELSE [d : TimeSteps, swapped : BOOLEAN, shape : {DataShape}]
         \cup [d : {0}, swapped : BOOLEAN, shape : Shapes(6)]

(* The header lengths the decoder reports: a 20-byte IP header, a 20-byte  *)
(* TCP header or the 8-byte UDP header.                                    *)
Packet(time, conv, swapped, proto, dscp, shape) ==
    [time |-> time,
     srcip |-> IF swapped THEN conv.dstip ELSE conv.srcip,
     srcport |-> IF swapped THEN conv.dstport ELSE conv.srcport,
     dstip |-> IF swapped THEN conv.srcip ELSE conv.dstip,
     dstport |-> IF swapped THEN conv.srcport ELSE conv.dstport,
     proto |-> proto,
     dscp |-> dscp,
     len |-> shape.len,
     iphlen |-> 20,
     prhlen |-> IF proto = 6 THEN 20 ELSE 8,
     flags |-> shape.flags]

ConvOf(pkt) == [srcip |-> pkt.srcip, srcport |-> pkt.srcport,
                dstip |-> pkt.dstip, dstport |-> pkt.dstport]

NoUnit == [self |-> "STATE_TCP_START", flags |-> 0, dir |-> "f", pdir |-> "f",
           result |-> "none"]

NoHist == [call |-> "none", class |-> "none",
           processed |-> 0, expired |-> 0, reordered |-> 0,
           vol |-> 0, fvol |-> 0, payload_est |-> FALSE,
           payload_other |-> FALSE, exact_timeout |-> FALSE,
           pushes |-> 0, printed |-> 0,
           data_seen |-> FALSE, fsame |-> TRUE, bsame |-> TRUE,
           tmin_fpktl |-> -1, tmin_bpktl |-> -1, tmin_fiat |-> -1,
           tmin_biat |-> -1, tmin_active |-> -1, tmin_idle |-> -1]

(* The least sample of a statistic after a call, -1 while it has none: a   *)
(* call pushed a sample when the statistic's count grew, and the sample is *)
(* what its sum grew by.                                                   *)
TrueMin(old, count0, count1, sum0, sum1) ==
    IF count1 > count0 /\ (old = -1 \/ sum1 - sum0 < old)
    THEN sum1 - sum0 ELSE old

(* The FlowTable before any packet: no flow, the first id to assign, an    *)
(* empty sink.                                                             *)
NoTable == [flows |-> [k \in {} |-> NoFlow], next_id |-> 1, sink |-> {}]

-----------------------------------------------------------------------------
(* The engine driven by a caller: one flow is constructed from a first     *)
(* packet, fed packets with add until add reports it terminated or         *)
(* expired, and exported.  An exception that escapes a call ends the run.  *)

Init ==
    /\ flow = NoFlow
    /\ phase = "none"
    /\ ret = -1
    /\ err = "none"
    /\ lastpkt = NoPkt
    /\ clock = 0
    /\ nadds = 0
    /\ nexports = 0
    /\ hist = NoHist
    /\ unit = NoUnit
    /\ s3 = 0
    /\ ftable = NoTable
    /\ ningest = 0
    /\ flow2 = Return(NoFlow, -1)

(* The step of Flow(pkt, 1), r being what the constructor evaluates to.    *)
(* When the constructor raises, no object comes to exist.                  *)
ConstructStep(pkt, r) ==
        /\ phase = "none"
        /\ flow' = IF r.err = "none" THEN r.f ELSE NoFlow
        /\ phase' = IF r.err = "none" THEN "live" ELSE "failed"
        /\ ret' = -1
        /\ err' = r.err
        /\ lastpkt' = pkt
        /\ clock' = pkt.time
        /\ hist' = [NoHist EXCEPT !.call = "init", !.vol = pkt.len,
                                    !.fvol = pkt.len,
                                    !.data_seen = pkt.len > 8,
                                    !.tmin_fpktl = pkt.len]
        /\ UNCHANGED <<nadds, nexports, unit>>

(* Flow(pkt, 1).                                                           *)
ConstructWith(pkt) == ConstructStep(pkt, Flow_init(pkt, 1))

(* The step of flow.add(pkt), r being what add evaluates to.  The history  *)
(* classifies the packet from the inputs: it is expired when it comes more *)
(* than FLOW_TIMEOUT after the latest packet of the flow, reordered when   *)
(* it comes before it, processed otherwise.                                *)
AddStep(pkt, r) ==
    LET expired == pkt.time - clock > FLOW_TIMEOUT
        reordered == pkt.time < clock
        processed == ~expired /\ ~reordered
        forward == pkt.srcip = flow.first_packet.srcip
        payload == pkt.len > pkt.iphlen + pkt.prhlen
        est == flow.cstate = "STATE_TCP_ESTABLISHED"
    IN  /\ phase = "live"
        /\ flow' = r.f
        /\ phase' = IF r.err = "none" THEN "live" ELSE "failed"
        /\ ret' = r.ret
        /\ err' = r.err
        /\ lastpkt' = pkt
        /\ clock' = IF pkt.time > clock THEN pkt.time ELSE clock
        /\ nadds' = nadds + 1
        /\ hist' = [hist EXCEPT
              !.call = "add",
              !.class = IF expired THEN "expired"
                        ELSE IF reordered THEN "reordered" ELSE "processed",
              !.processed = IF processed THEN @ + 1 ELSE @,
              !.expired = IF expired THEN @ + 1 ELSE @,
              !.reordered = IF reordered THEN @ + 1 ELSE @,
              !.vol = IF processed THEN @ + pkt.len ELSE @,
              !.fvol = IF processed /\ forward THEN @ + pkt.len ELSE @,
              !.payload_est = @ \/ (processed /\ pkt.proto = 6 /\ payload /\ est),
              !.payload_other =
                  @ \/ (processed /\ pkt.proto = 6 /\ payload /\ ~est
                          /\ r.err = "none"),
              !.exact_timeout = @ \/ (pkt.time - clock = FLOW_TIMEOUT),
              !.data_seen = @ \/ (processed /\ pkt.len > 8),
              !.fsame = @ /\ (processed /\ forward
                                => pkt.len = flow.first_packet.len),
              !.bsame = @ /\ (processed /\ ~forward /\ hist.tmin_bpktl # -1
                                => pkt.len = hist.tmin_bpktl),
              !.tmin_fpktl = TrueMin(@, flow.a_total_fpackets,
                                     r.f.a_total_fpackets,
                                     flow.a_total_fvolume, r.f.a_total_fvolume),
              !.tmin_bpktl = TrueMin(@, flow.a_total_bpackets,
                                     r.f.a_total_bpackets,
                                     flow.a_total_bvolume, r.f.a_total_bvolume),
              !.tmin_fiat = TrueMin(@, flow.c_fiat_count, r.f.c_fiat_count,
                                    flow.c_fiat_sum, r.f.c_fiat_sum),
              !.tmin_biat = TrueMin(@, flow.c_biat_count, r.f.c_biat_count,
                                    flow.c_biat_sum, r.f.c_biat_sum),
              !.tmin_active = TrueMin(@, flow.c_active_count,
                                      r.f.c_active_count,
                                      flow.c_active_time, r.f.c_active_time),
              !.tmin_idle = TrueMin(@, flow.c_idle_count, r.f.c_idle_count,
                                    flow.c_idle_time, r.f.c_idle_time)]
        /\ UNCHANGED <<nexports, unit>>

(* flow.add(pkt).                                                          *)
AddWith(pkt) == AddStep(pkt, add(flow, pkt))

Construct ==
    \E conv \in Conversations, t \in FirstTimes, proto \in {6, 17} :
      \E shape \in Shapes(proto) :
        /\ ConstructWith(Packet(t, conv, FALSE, proto, 0, shape))
        /\ UNCHANGED <<s3, ftable, ningest, flow2>>

Add ==
    /\ phase = "live"
    /\ ret \notin {1, 2}
    /\ nexports = 0
    /\ nadds < MaxPackets
    /\ \E in \in AddInputs(flow.a_proto) :
        /\ clock + in.d >= 0
        /\ AddWith(Packet(clock + in.d, ConvOf(flow.first_packet), in.swapped,
                          flow.a_proto, 0, in.shape))
        /\ UNCHANGED <<s3, ftable, ningest, flow2>>

(* The step of flow.export(), r being what export evaluates to.            *)
ExportStep(r) ==
        /\ phase = "live"
        /\ nexports < MaxExports
        /\ flow' = r.f
        /\ phase' = IF r.err = "none" THEN "live" ELSE "failed"
        /\ err' = r.err
        /\ nexports' = nexports + 1
        /\ hist' = [hist EXCEPT
              !.call = "export",
              !.pushes = IF flow.valid THEN @ + 1 ELSE @,
              !.printed = IF flow.valid /\ r.err = "none" THEN @ + 1 ELSE @,
              !.tmin_active = TrueMin(@, flow.c_active_count,
                                      r.f.c_active_count,
                                      flow.c_active_time, r.f.c_active_time)]
        /\ UNCHANGED <<ret, lastpkt, clock, nadds, unit, s3, ftable, ningest, flow2>>

(* flow.export().                                                          *)
Export == ExportStep(export(flow))

Next == Construct \/ Add \/ Export

Spec == Init /\ [][Next]_vars

-----------------------------------------------------------------------------
(* STATE_TCP.update on its own: one call from every state, with every flag *)
(* byte and every pair of directions.                                      *)

UpdateInit ==
    /\ flow = NoFlow
    /\ phase = "none"
    /\ ret = -1
    /\ err = "none"
    /\ lastpkt = NoPkt
    /\ clock = 0
    /\ nadds = 0
    /\ nexports = 0
    /\ hist = NoHist
    /\ s3 = 0
    /\ ftable = NoTable
    /\ ningest = 0
    /\ flow2 = Return(NoFlow, -1)
    /\ unit \in [self : TcpStates, flags : 0..255, dir : {"f", "b"},
                 pdir : {"f", "b"}, result : {"none"}]

UpdateCall ==
    /\ unit.result = "none"
    /\ unit' = [unit EXCEPT !.result =
                   STATE_TCP_update(unit.self, unit.flags, unit.dir, unit.pdir)]
    /\ UNCHANGED <<flow, phase, ret, err, lastpkt, clock, nadds, nexports,
                   hist, s3, ftable, ningest, flow2>>

SpecUpdate == UpdateInit /\ [][UpdateCall]_vars

-----------------------------------------------------------------------------
(* Scenario S3: a TCP handshake, a payload packet and a teardown, fed to a *)
(* new flow with gaps of at most MaxGap ticks.                             *)

S3Packets ==
    <<[swapped |-> FALSE, shape |-> [len |-> 40, flags |-> TCP_SYN]],
      [swapped |-> TRUE,  shape |-> [len |-> 40, flags |-> TCP_SYN + TCP_ACK]],
      [swapped |-> FALSE, shape |-> [len |-> 40, flags |-> TCP_ACK]],
      [swapped |-> FALSE, shape |-> [len |-> 60, flags |-> TCP_PSH + TCP_ACK]],
      [swapped |-> TRUE,  shape |-> [len |-> 40, flags |-> TCP_ACK]],
      [swapped |-> FALSE, shape |-> [len |-> 40, flags |-> TCP_FIN + TCP_ACK]],
      [swapped |-> TRUE,  shape |-> [len |-> 40, flags |-> TCP_ACK]]>>

S3Construct ==
    /\ s3 = 0
    /\ \E conv \in Conversations, t \in FirstTimes :
         ConstructWith(Packet(t, conv, FALSE, 6, 0, S3Packets[1].shape))
    /\ s3' = 1
    /\ UNCHANGED <<ftable, ningest, flow2>>

S3Add ==
    /\ s3 \in 1..(Len(S3Packets) - 1)
    /\ phase = "live"
    /\ \E gap \in 0..MaxGap :
         AddWith(Packet(clock + gap, ConvOf(flow.first_packet),
                        S3Packets[s3 + 1].swapped, 6, 0,
                        S3Packets[s3 + 1].shape))
    /\ s3' = s3 + 1
    /\ UNCHANGED <<ftable, ningest, flow2>>

SpecS3 == Init /\ [][S3Construct \/ S3Add]_vars

-----------------------------------------------------------------------------
(* The FlowTable (specification, section 4.3): the live flows by canonical *)
(* key, the next id to assign and the sink, here the set of the ids of the *)
(* flows whose record was emitted.  It calls the Flow methods above.       *)

(* The canonical 5-tuple: the protocol and the two endpoints, whichever of *)
(* them is the source.                                                     *)
FlowKey(pkt) ==
    <<pkt.proto, {<<pkt.srcip, pkt.srcport>>, <<pkt.dstip, pkt.dstport>>}>>

(* Results of the table's operations: the table after the call, the value  *)
(* add returned (-1 when add was not called) and the exception that        *)
(* escaped, if any.                                                        *)
TReturn(t, value) == [t |-> t, ret |-> value, err |-> "none"]
TRaise(t, exc) == [t |-> t, ret |-> -1, err |-> exc]

table_put(t, key, self) ==
    [t EXCEPT !.flows = [k \in (DOMAIN @) \cup {key} |->
                            IF k = key THEN self ELSE @[k]]]

table_remove(t, key) ==
    [t EXCEPT !.flows = [k \in (DOMAIN @) \ {key} |-> @[k]]]

(* flow.export() with the sink behind it, r being what export evaluates    *)
(* to: the record of a valid flow reaches the sink when formatting it      *)
(* raised nothing.                                                         *)
table_exported(t, self, r) ==
    IF r.err # "none" THEN TRaise(t, r.err)
    ELSE IF self.valid
         THEN TReturn([t EXCEPT !.sink = @ \cup {self.id}], -1)
         ELSE TReturn(t, -1)

table_export(t, self) == table_exported(t, self, export(self))

(* A miss: Flow(pkt, next_id), r being what the constructor evaluates to,  *)
(* enters the table under the packet's key.                                *)
table_created(t, key, r) ==
    IF r.err # "none" THEN TRaise(t, r.err)
    ELSE TReturn(table_put([t EXCEPT !.next_id = @ + 1], key, r.f), -1)

table_create(t, key, pkt) == table_created(t, key, Flow_init(pkt, t.next_id))

(* The end of ingest when add returned Terminated or Expired (value), e    *)
(* being the result of exporting the flow: the flow is removed, and after  *)
(* Expired the packet creates a fresh flow under the key.                  *)
ingest_exported(key, pkt, value, e) ==
    IF e.err # "none" THEN [e EXCEPT !.ret = value]
    ELSE IF value = 1 THEN TReturn(table_remove(e.t, key), 1)
    ELSE [table_create(table_remove(e.t, key), key, pkt) EXCEPT !.ret = 2]

(* A hit: t holds the flow as add left it, r is what add evaluated to.     *)
ingest_added(t, key, pkt, r) ==
    IF r.err # "none" THEN TRaise(t, r.err)
    ELSE IF r.ret = 0 THEN TReturn(t, 0)
    ELSE ingest_exported(key, pkt, r.ret, table_export(t, r.f))

ingest_hit(t, key, pkt, r) == ingest_added(table_put(t, key, r.f), key, pkt, r)

ingest_key(t, key, pkt) ==
    IF key \notin DOMAIN t.flows THEN table_create(t, key, pkt)
    ELSE ingest_hit(t, key, pkt, add(t.flows[key], pkt))

(* FlowTable.ingest(pkt).                                                  *)
ingest(t, pkt) == ingest_key(t, FlowKey(pkt), pkt)

(* Export and remove the flows under keys, one after the other; an         *)
(* exception ends the iteration.                                           *)
RECURSIVE export_all(_, _)
export_next(keys, key, e) ==
    IF e.err # "none" THEN e
    ELSE export_all(table_remove(e.t, key), keys \ {key})

export_one(t, keys, key) == export_next(keys, key, table_export(t, t.flows[key]))

export_all(t, keys) ==
    IF keys = {} THEN TReturn(t, -1)
    ELSE export_one(t, keys, CHOOSE k \in keys : TRUE)

(* FlowTable.sweep(now).                                                   *)
sweep(t, now) ==
    export_all(t, {k \in DOMAIN t.flows : checkidle(t.flows[k], now)})

(* FlowTable.drain().                                                      *)
drain(t) == export_all(t, DOMAIN t.flows)

(* What the table is fed: packets of one conversation, in either           *)
(* direction, of both protocols, in non-decreasing time order.             *)
TableSteps == {0, 1, FLOW_TIMEOUT + 1}

TableShapes(proto) ==
    IF proto = 17
    THEN {[len |-> 8, flags |-> 0], [len |-> 60, flags |-> 0]}
    ELSE {[len |-> 40, flags |-> TCP_SYN], [len |-> 40, flags |-> 0],
          DataShape}

(* The step of table.ingest(pkt), r being what ingest evaluates to.        *)
IngestResult(pkt, r) ==
    /\ ftable' = r.t
    /\ phase' = IF r.err = "none" THEN "live" ELSE "failed"
    /\ ret' = r.ret
    /\ err' = r.err
    /\ lastpkt' = pkt
    /\ clock' = pkt.time
    /\ ningest' = ningest + 1

IngestStep(pkt) == IngestResult(pkt, ingest(ftable, pkt))

(* The step of table.sweep(now) or table.drain(), r being what the call    *)
(* evaluates to and done the phase after a normal return.                  *)
TableResult(r, done) ==
    /\ ftable' = r.t
    /\ phase' = IF r.err = "none" THEN done ELSE "failed"
    /\ err' = r.err

Ingest ==
    /\ phase \in {"none", "live"}
    /\ ningest < MaxIngest
    /\ \E conv \in Conversations, d \in TableSteps, swapped \in BOOLEAN,
          proto \in {6, 17} :
         \E shape \in TableShapes(proto) :
           IngestStep(Packet(clock + d, conv, swapped, proto, 0, shape))
    /\ UNCHANGED <<flow, nadds, nexports, hist, unit, s3, flow2>>

Sweep ==
    /\ phase = "live"
    /\ DOMAIN ftable.flows # {}
    /\ \E d \in {0, FLOW_TIMEOUT + 1} :
         /\ TableResult(sweep(ftable, clock + d), "live")
         /\ clock' = clock + d
    /\ UNCHANGED <<flow, ret, lastpkt, nadds, nexports, hist, unit, s3,
                   ningest, flow2>>

Drain ==
    /\ phase = "live"
    /\ TableResult(drain(ftable), "drained")
    /\ UNCHANGED <<flow, ret, lastpkt, clock, nadds, nexports, hist, unit,
                   s3, ningest, flow2>>

SpecTable == Init /\ [][Ingest \/ Sweep \/ Drain]_vars

-----------------------------------------------------------------------------
(* The packet-length statistics on lengths one byte apart: a UDP flow fed  *)
(* packets of LenShapes in either direction, at steps of 0 or 1 tick, and  *)
(* exported.                                                               *)

LenShapes == {[len |-> 60, flags |-> 0], [len |-> 61, flags |-> 0]}

LenConstruct ==
    /\ \E conv \in Conversations, shape \in LenShapes :
         ConstructWith(Packet(0, conv, FALSE, 17, 0, shape))
    /\ UNCHANGED <<s3, ftable, ningest, flow2>>

LenAdd ==
    /\ phase = "live"
    /\ nexports = 0
    /\ nadds < MaxPackets
    /\ \E d \in {0, 1}, swapped \in BOOLEAN, shape \in LenShapes :
         AddWith(Packet(clock + d, ConvOf(flow.first_packet), swapped,
                        17, 0, shape))
    /\ UNCHANGED <<s3, ftable, ningest, flow2>>

SpecLen == Init /\ [][LenConstruct \/ LenAdd \/ Export]_vars

-----------------------------------------------------------------------------
(* Properties.                                                             *)

HasFlow == "valid" \in DOMAIN flow

IsPayload(pkt) == pkt.len > pkt.iphlen + pkt.prhlen

(* A flag is set in a flag byte when its bit is 1, whatever the other bits.*)
BitSet(flags, bit) == BitAnd(flags, bit) = bit

(* The ordered transition rules as the specification states them.          *)
RuleNext(self, flags, dir, pdir) ==
    IF BitSet(flags, TCP_RST) THEN "STATE_TCP_CLOSED"
    ELSE IF BitSet(flags, TCP_FIN) /\ dir = pdir THEN "STATE_TCP_FIN"
    ELSE IF self = "STATE_TCP_START" /\ BitSet(flags, TCP_SYN) /\ dir = pdir
         THEN "STATE_TCP_SYN"
    ELSE IF self = "STATE_TCP_SYN" /\ BitSet(flags, TCP_SYN)
              /\ BitSet(flags, TCP_ACK) /\ dir # pdir
         THEN "STATE_TCP_SYNACK"
    ELSE IF self = "STATE_TCP_SYNACK" /\ BitSet(flags, TCP_ACK) /\ dir = pdir
         THEN "STATE_TCP_ESTABLISHED"
    ELSE IF self = "STATE_TCP_FIN" /\ BitSet(flags, TCP_ACK) /\ dir # pdir
         THEN "STATE_TCP_CLOSED"
    ELSE self

(* C1: a TCP flow is valid only if update_status has processed a packet    *)
(* with payload while cstate was already ESTABLISHED; a TCP flow for which *)
(* no such packet was processed is not valid.                              *)
C1_ValidOnlyAfterEstablishedPayload ==
    (HasFlow /\ flow.a_proto = 6 /\ ~hist.payload_est) => ~flow.valid

(* A TCP flow that processed a payload packet outside ESTABLISHED, and no  *)
(* payload packet in ESTABLISHED.                                          *)
C1_Witness ==
    /\ HasFlow /\ flow.a_proto = 6
    /\ hist.payload_other /\ ~hist.payload_est
    /\ phase = "live" /\ hist.call = "add" /\ ~flow.valid

(* C2: scenario S3 drives cstate START -> SYN -> SYNACK -> ESTABLISHED and *)
(* the flow is valid once the PSH+ACK payload packet has been added.       *)
C2_S3HandshakeValid ==
    (s3 >= 1 /\ HasFlow) =>
        /\ (s3 = 1 => flow.cstate = "STATE_TCP_SYN")
        /\ (s3 = 2 => flow.cstate = "STATE_TCP_SYNACK")
        /\ (s3 \in 3..5 => flow.cstate = "STATE_TCP_ESTABLISHED")
        /\ (s3 >= 4 => flow.valid)

(* C3: in scenario S3 the add call for the final backward ACK returns      *)
(* Terminated (1): both cstate and sstate are CLOSED after that packet.    *)
C3_S3Terminated ==
    (s3 = Len(S3Packets) /\ HasFlow) =>
        /\ ret = 1
        /\ flow.cstate = "STATE_TCP_CLOSED"
        /\ flow.sstate = "STATE_TCP_CLOSED"

(* C3 as amended: in scenario S3 the add call for the final backward ACK   *)
(* returns Accepted (0), and sstate is not CLOSED after that packet.       *)
C3_S3NotTerminated ==
    (s3 = Len(S3Packets) /\ HasFlow) =>
        /\ ret = 0
        /\ flow.sstate # "STATE_TCP_CLOSED"

(* The last packet of S3 has been added.                                   *)
C3_Witness ==
    /\ s3 = Len(S3Packets) /\ phase = "live" /\ hist.call = "add"
    /\ hist.processed = Len(S3Packets) - 1
    /\ lastpkt.flags = TCP_ACK /\ lastpkt.srcip # flow.first_packet.srcip

(* C4: for every packet that add processed (neither expired nor            *)
(* reordered), add returned 1 if the packet is TCP and both cstate and     *)
(* sstate are CLOSED after it, and 0 otherwise.                            *)
C4_AddResult ==
    (hist.call = "add" /\ hist.class = "processed") =>
        ret = IF lastpkt.proto = 6 /\ flow.cstate = "STATE_TCP_CLOSED"
                                   /\ flow.sstate = "STATE_TCP_CLOSED"
              THEN 1 ELSE 0

(* C5: STATE_TCP.update returns the state the ordered rules give, for      *)
(* every state, flag byte, dir and pdir.                                   *)
C5_UpdateFollowsRules ==
    unit.result # "none" =>
        unit.result = RuleNext(unit.self, unit.flags, unit.dir, unit.pdir)

(* C6: total_fpackets + total_bpackets is 1 plus the number of packets     *)
(* that add processed.                                                     *)
C6_PacketConservation ==
    HasFlow => flow.a_total_fpackets + flow.a_total_bpackets
                 = 1 + hist.processed

(* An exported record of a flow that ignored a reordered packet and        *)
(* processed others.                                                       *)
C6_Witness ==
    /\ HasFlow /\ hist.printed >= 1
    /\ hist.processed >= 2 /\ hist.reordered >= 1

(* C7: total_fvolume + total_bvolume is the sum of len over the creating   *)
(* packet and the processed packets, the forward total holding the lengths *)
(* of the packets classified forward and the backward total the others.    *)
C7_VolumeConservation ==
    HasFlow =>
        /\ flow.a_total_fvolume + flow.a_total_bvolume = hist.vol
        /\ flow.a_total_fvolume = hist.fvol
        /\ flow.a_total_bvolume = hist.vol - hist.fvol

(* A flow that counted packets in both directions and met an expired one.  *)
C7_Witness ==
    /\ HasFlow /\ flow.a_total_fpackets >= 2 /\ flow.a_total_bpackets >= 1
    /\ hist.expired >= 1 /\ hist.vol - hist.fvol > 0

(* C8: after export's finalising push the active durations and the idle    *)
(* durations add up to duration = last_time() - first_time.                *)
C8_SubflowPartition ==
    (HasFlow /\ hist.pushes = 1) =>
        /\ flow.c_active_time + flow.c_idle_time
             = get_last_time(flow) - flow.first
        /\ flow.a_duration = get_last_time(flow) - flow.first

(* An exported flow with an idle period between two active bursts.         *)
C8_Witness ==
    /\ HasFlow /\ hist.pushes = 1 /\ hist.printed = 1
    /\ flow.c_idle_count >= 1 /\ flow.c_active_count >= 2
    /\ flow.c_active_time > 0

(* C9: every flow that export formats has duration > 0, so the assertion   *)
(* on the duration in export holds.                                        *)
C9_DurationPositive ==
    (HasFlow /\ hist.pushes >= 1) =>
        /\ flow.a_duration > 0
        /\ err # "AssertionError"

(* C10: add returns Expired (2) exactly when pkt.time - last_time() is     *)
(* greater than FLOW_TIMEOUT, and then leaves every field of the flow as   *)
(* it was.                                                                 *)
C10_ExpiredFrame ==
    [][nadds' = nadds + 1 =>
         /\ (ret' = 2) <=>
              (lastpkt'.time - get_last_time(flow) > FLOW_TIMEOUT)
         /\ (ret' = 2) => flow' = flow]_vars

(* A flow that processed a packet at a gap of exactly FLOW_TIMEOUT and     *)
(* then rejected one as expired.                                           *)
C10_Witness ==
    /\ HasFlow /\ ret = 2 /\ hist.call = "add" /\ hist.class = "expired"
    /\ hist.exact_timeout /\ hist.processed >= 1

(* C11: for every packet older than the latest packet of its flow, add     *)
(* returns Accepted (0) and leaves every field of the flow as it was.      *)
C11_ReorderFrame ==
    [][(nadds' = nadds + 1 /\ lastpkt'.time < get_last_time(flow)) =>
         (ret' = 0 /\ err' = "none" /\ flow' = flow)]_vars

(* C12: when add returns Expired (2) for an ingested packet, the old flow   *)
(* reaches the sink exactly if it was valid, it is removed, and the same   *)
(* packet is the first packet of a fresh flow under the same key: a        *)
(* greater id, first_time the packet's time, one forward packet and every  *)
(* other field as the constructor leaves it.                               *)
C12_Rekeying ==
    [][(ningest' = ningest + 1 /\ ret' = 2) =>
         LET key == FlowKey(lastpkt')
             old == ftable.flows[key]
         IN  /\ key \in DOMAIN ftable'.flows
             /\ ftable'.flows[key].id > old.id
             /\ ftable'.flows[key].first = lastpkt'.time
             /\ ftable'.flows[key].a_total_fpackets = 1
             /\ ftable'.flows[key]
                  = Flow_init(lastpkt', ftable'.flows[key].id).f
             /\ ftable'.sink = IF old.valid THEN ftable.sink \cup {old.id}
                               ELSE ftable.sink]_vars

(* C13: over construction, add and export, valid never changes from true   *)
(* back to false, so it changes from false to true at most once.           *)
C13_ValidMonotone ==
    [][(HasFlow /\ flow.valid) => ("valid" \in DOMAIN flow' /\ flow'.valid)]_vars

(* A flow that was valid, then processed a further backward packet without *)
(* data, and was exported.                                                 *)
C13_Witness ==
    /\ HasFlow /\ flow.valid /\ phase = "live"
    /\ flow.a_total_bpackets >= 2 /\ lastpkt.len <= 8
    /\ nexports >= 1

(* C14: a valid UDP flow has at least one backward packet and has         *)
(* processed a packet with len > 8; a UDP flow whose packets all travel    *)
(* forward is not valid and export prints no record of it.                 *)
C14_UdpValidity ==
    (HasFlow /\ flow.a_proto = 17) =>
        /\ flow.valid => (flow.a_total_bpackets >= 1 /\ hist.data_seen)
        /\ (hist.vol = hist.fvol) => (~flow.valid /\ hist.printed = 0)

(* Scenario S1: a UDP flow of two or more forward packets with data and no *)
(* backward packet, after export.                                          *)
C14_Witness ==
    /\ HasFlow /\ flow.a_proto = 17 /\ phase = "live"
    /\ flow.a_total_fpackets >= 2 /\ hist.vol = hist.fvol /\ hist.data_seen
    /\ nexports >= 1 /\ ~flow.valid /\ hist.printed = 0

(* C15: export of a flow that is not valid prints no record and leaves     *)
(* every field of the flow as it was.                                      *)
C15_ExportInvalidNoop ==
    [][(nexports' = nexports + 1 /\ ~flow.valid) =>
         (flow' = flow /\ err' = "none" /\ hist'.printed = hist.printed)]_vars

(* An invalid flow after export, whose last active burst has a length that *)
(* the finalising push would have counted.                                 *)
C15_Witness ==
    /\ HasFlow /\ ~flow.valid /\ phase = "live" /\ nexports >= 1
    /\ get_last_time(flow) > flow.c_active_start
    /\ flow.c_active_count = 0 /\ flow.a_duration = 0 /\ hist.printed = 0

(* C16: the finalising push of the last active burst is applied at most    *)
(* once: an export of a valid flow that was exported before leaves         *)
(* c_active_count, c_active_time, c_active_sqsum, min_active and           *)
(* max_active as they were.                                                *)
C16_ExportIdempotent ==
    [][(nexports' = nexports + 1 /\ flow.valid /\ hist.pushes >= 1) =>
         /\ flow'.c_active_count = flow.c_active_count
         /\ flow'.c_active_time = flow.c_active_time
         /\ flow'.c_active_sqsum = flow.c_active_sqsum
         /\ flow'.a_min_active = flow.a_min_active
         /\ flow'.a_max_active = flow.a_max_active]_vars

(* C17: when the packets come in non-decreasing time order, construction, *)
(* add and export raise nothing but the fatal errors of export (no active  *)
(* segment, zero duration).                                                *)
C17_NoOtherException ==
    hist.reordered = 0 =>
        \/ err = "none"
        \/ hist.call = "export" /\ err \in {"Exception", "AssertionError"}

(* A min field with the count of its statistic and the least sample       *)
(* pushed: the field is 0 exactly when there is no sample, and is the      *)
(* least sample otherwise.                                                 *)
ZeroSentinel(min, count, least) ==
    /\ (min = 0) <=> (count = 0)
    /\ count > 0 => min = least

(* C18: in every state each of min_fpktl, min_bpktl, min_fiat, min_biat,   *)
(* min_active and min_idle is 0 if and only if no sample was pushed into   *)
(* its statistic, and is the least of the pushed samples otherwise.        *)
C18_ZeroSentinel ==
    HasFlow =>
        /\ ZeroSentinel(flow.a_min_fpktl, flow.a_total_fpackets,
                        hist.tmin_fpktl)
        /\ ZeroSentinel(flow.a_min_bpktl, flow.a_total_bpackets,
                        hist.tmin_bpktl)
        /\ ZeroSentinel(flow.a_min_fiat, flow.c_fiat_count, hist.tmin_fiat)
        /\ ZeroSentinel(flow.a_min_biat, flow.c_biat_count, hist.tmin_biat)
        /\ ZeroSentinel(flow.a_min_active, flow.c_active_count,
                        hist.tmin_active)
        /\ ZeroSentinel(flow.a_min_idle, flow.c_idle_count, hist.tmin_idle)

(* min <= mean <= max for a mean kept as the fraction <<sum, count>>.      *)
Bracketed(min, mean, max) ==
    min * mean[2] <= mean[1] /\ mean[1] <= max * mean[2]

(* C19: in every exported record min <= mean <= max holds for the forward  *)
(* packet lengths, for the backward packet lengths when there is a         *)
(* backward packet, and for the forward and backward inter-arrival times,  *)
(* the active and the idle durations when they have a sample.              *)
C19_MinMeanMax ==
    (HasFlow /\ hist.call = "export" /\ hist.printed >= 1) =>
        /\ flow.a_min_fpktl <= flow.a_mean_fpktl
        /\ flow.a_mean_fpktl <= flow.a_max_fpktl
        /\ flow.a_total_bpackets >= 1 =>
             (flow.a_min_bpktl <= flow.a_mean_bpktl
                /\ flow.a_mean_bpktl <= flow.a_max_bpktl)
        /\ flow.c_fiat_count >= 1 =>
             Bracketed(flow.a_min_fiat, flow.a_mean_fiat, flow.a_max_fiat)
        /\ flow.c_biat_count >= 1 =>
             Bracketed(flow.a_min_biat, flow.a_mean_biat, flow.a_max_biat)
        /\ flow.c_active_count >= 1 =>
             Bracketed(flow.a_min_active, flow.a_mean_active,
                       flow.a_max_active)
        /\ flow.c_idle_count >= 1 =>
             Bracketed(flow.a_min_idle, flow.a_mean_idle, flow.a_max_idle)

(* C20: in an exported record the standard deviation of the packet        *)
(* lengths of a direction is zero if and only if the direction has at most *)
(* one packet or all its packets have the same length.                     *)
C20_StddevZero ==
    (HasFlow /\ hist.call = "export" /\ hist.printed >= 1) =>
        /\ flow.a_total_fpackets <= 1 => flow.a_std_fpktl = 0
        /\ flow.a_total_fpackets > 1 =>
             ((flow.a_std_fpktl.sqrt = 0) <=> hist.fsame)
        /\ flow.a_total_bpackets <= 1 => flow.a_std_bpktl = 0
        /\ flow.a_total_bpackets > 1 =>
             ((flow.a_std_bpktl.sqrt = 0) <=> hist.bsame)

(* C21: CLOSED is terminal: once the client half or the server half of a   *)
(* TCP flow is CLOSED it is CLOSED after every later packet the flow is    *)
(* given, whatever the packet's flags and direction.                       *)
C21_ClosedTerminal ==
    [][(HasFlow /\ flow.a_proto = 6 /\ nadds' = nadds + 1) =>
         /\ flow.cstate = "STATE_TCP_CLOSED"
              => flow'.cstate = "STATE_TCP_CLOSED"
         /\ flow.sstate = "STATE_TCP_CLOSED"
              => flow'.sstate = "STATE_TCP_CLOSED"]_vars

(* 1 when the bit is set in the flag byte, 0 otherwise.                    *)
FlagCount(flags, bit) == IF BitSet(flags, bit) THEN 1 ELSE 0

(* C22: the flag counters of a TCP flow count the packets whose PSH or URG *)
(* bit is set: after construction fpsh_cnt and furg_cnt are 1 or 0 as the  *)
(* creating packet has the bit, and every processed packet adds 1 to the   *)
(* PSH counter of its direction if its PSH bit is set and 1 to the URG     *)
(* counter of its direction if its URG bit is set, and nothing otherwise;  *)
(* in particular a backward URG packet adds exactly 1 to burg_cnt.         *)
C22_FlagCounters ==
    [][/\ (~HasFlow /\ phase' = "live" /\ flow'.a_proto = 6) =>
            /\ flow'.a_fpsh_cnt = FlagCount(lastpkt'.flags, TCP_PSH)
            /\ flow'.a_furg_cnt = FlagCount(lastpkt'.flags, TCP_URG)
            /\ flow'.a_bpsh_cnt = 0
            /\ flow'.a_burg_cnt = 0
       /\ (HasFlow /\ flow.a_proto = 6 /\ nadds' = nadds + 1
             /\ hist'.class = "processed") =>
            LET fwd == IF lastpkt'.srcip = flow.first_packet.srcip
                       THEN 1 ELSE 0
                psh == FlagCount(lastpkt'.flags, TCP_PSH)
                urg == FlagCount(lastpkt'.flags, TCP_URG)
            IN  /\ flow'.a_fpsh_cnt = flow.a_fpsh_cnt + fwd * psh
                /\ flow'.a_furg_cnt = flow.a_furg_cnt + fwd * urg
                /\ flow'.a_bpsh_cnt = flow.a_bpsh_cnt + (1 - fwd) * psh
                /\ flow'.a_burg_cnt = flow.a_burg_cnt + (1 - fwd) * urg]_vars

-----------------------------------------------------------------------------
(* The DSCP field: a UDP flow fed packets that carry a DSCP value of       *)
(* DscpValues in either direction, inside a burst and after an idle gap.   *)

DscpValues == {0, 5}

DscpSteps == {0, 1, IDLE_THRESHOLD + 1}

DscpConstruct ==
    /\ \E conv \in Conversations, t \in FirstTimes, dscp \in DscpValues :
         ConstructWith(Packet(t, conv, FALSE, 17, dscp,
                              [len |-> 60, flags |-> 0]))
    /\ UNCHANGED <<s3, ftable, ningest, flow2>>

DscpAdd ==
    /\ phase = "live"
    /\ nexports = 0
    /\ nadds < MaxPackets
    /\ \E d \in DscpSteps, swapped \in BOOLEAN, dscp \in DscpValues :
         AddWith(Packet(clock + d, ConvOf(flow.first_packet), swapped,
                        17, dscp, [len |-> 60, flags |-> 0]))
    /\ UNCHANGED <<s3, ftable, ningest, flow2>>

SpecDscp == Init /\ [][DscpConstruct \/ DscpAdd \/ Export]_vars

(* C23: add changes dscp only when the packet is the first backward packet *)
(* of the flow and the current dscp is 0, and then dscp becomes the        *)
(* packet's dscp; no forward packet and no later backward packet changes   *)
(* dscp.                                                                   *)
C23_DscpFirstBackward ==
    [][(HasFlow /\ nadds' = nadds + 1) =>
         LET first_backward ==
                 /\ hist'.class = "processed"
                 /\ lastpkt'.srcip # flow.first_packet.srcip
                 /\ flow.a_total_bpackets = 0
         IN  /\ (first_backward /\ flow.dscp = 0)
                  => flow'.dscp = lastpkt'.dscp
             /\ ~(first_backward /\ flow.dscp = 0)
                  => flow'.dscp = flow.dscp]_vars

(* C24: the branch of the export that raises Exception for an active count *)
(* of 0 is never taken: while the flow has not been exported its active    *)
(* count equals its idle count, and after the push of its first export the *)
(* active count is the idle count plus 1, hence at least 1.                *)
C24_ActiveCount ==
    HasFlow =>
        /\ hist.pushes = 0 => flow.c_active_count = flow.c_idle_count
        /\ hist.pushes = 1 =>
             (flow.c_active_count = flow.c_idle_count + 1
                /\ flow.c_active_count >= 1)
        /\ err # "Exception"

(* C24 witness: a record was exported for a flow with a sub-flow boundary. *)
C24_Witness ==
    /\ HasFlow
    /\ hist.call = "export"
    /\ hist.pushes = 1
    /\ hist.printed = 1
    /\ flow.c_idle_count >= 1

-----------------------------------------------------------------------------
(* Scenario S4: forward packets at 0.0 s and 0.2 s, an idle gap of 2.0 s,  *)
(* forward packets at 2.2 s and 2.5 s and a backward packet at 2.6 s, all  *)
(* UDP with data, fed to a new flow; beside it, everything Spec does.      *)

S4Times == <<0, (2 * TicksPerSecond) \div 10, (22 * TicksPerSecond) \div 10,
             (25 * TicksPerSecond) \div 10, (26 * TicksPerSecond) \div 10>>

S4Swapped == <<FALSE, FALSE, FALSE, FALSE, TRUE>>

S4Construct ==
    /\ s3 = 0
    /\ \E conv \in Conversations :
         ConstructWith(Packet(S4Times[1], conv, S4Swapped[1], 17, 0,
                              [len |-> 60, flags |-> 0]))
    /\ s3' = 1
    /\ UNCHANGED <<ftable, ningest, flow2>>

S4Add ==
    /\ s3 \in 1..(Len(S4Times) - 1)
    /\ nadds = s3 - 1
    /\ nexports = 0
    /\ phase = "live"
    /\ AddWith(Packet(S4Times[s3 + 1], ConvOf(flow.first_packet),
                      S4Swapped[s3 + 1], 17, 0, [len |-> 60, flags |-> 0]))
    /\ s3' = s3 + 1
    /\ UNCHANGED <<ftable, ningest, flow2>>

SpecS4 == Init /\ [][Next \/ S4Construct \/ S4Add]_vars

(* The active and idle statistics of a flow and the start of its burst.    *)
BurstStats(self) ==
    <<self.c_active_count, self.c_active_time, self.c_active_sqsum,
      self.a_min_active, self.a_max_active,
      self.c_idle_count, self.c_idle_time, self.c_idle_sqsum,
      self.a_min_idle, self.a_max_idle, self.c_active_start>>

(* What a call of add that processes a packet does to the sub-flows.       *)
C25_BoundaryStep ==
    (HasFlow /\ nadds' = nadds + 1) =>
      LET last == get_last_time(flow)
          gap == lastpkt'.time - last
      IN  /\ (IDLE_THRESHOLD < gap /\ gap <= FLOW_TIMEOUT
                /\ lastpkt'.time >= flow.first) =>
                /\ flow'.c_idle_count = flow.c_idle_count + 1
                /\ flow'.c_active_count = flow.c_active_count + 1
                /\ flow'.c_idle_time = flow.c_idle_time + gap
                /\ flow'.c_active_time =
                     flow.c_active_time + (last - flow.c_active_start)
                /\ flow'.c_active_start = lastpkt'.time
          /\ gap <= IDLE_THRESHOLD => BurstStats(flow') = BurstStats(flow)

(* The record exported for scenario S4.                                    *)
C25_S4Record ==
    (HasFlow /\ s3 = Len(S4Times) /\ hist.call = "export" /\ hist.pushes = 1) =>
        /\ hist.printed = 1
        /\ flow.c_active_count = 2
        /\ flow.a_min_active = S4Times[2] - S4Times[1]
        /\ flow.a_max_active = S4Times[5] - S4Times[3]
        /\ flow.c_active_time = flow.a_min_active + flow.a_max_active
        /\ flow.c_idle_count = 1
        /\ flow.c_idle_time = S4Times[3] - S4Times[2]
        /\ flow.a_total_fpackets = 4
        /\ flow.a_sflow_fpackets = flow.a_total_fpackets \div 2

(* C25: a processed packet that arrives more than IDLE_THRESHOLD (and at   *)
(* most FLOW_TIMEOUT) after the flow's last packet adds 1 to idle_count    *)
(* and to active_count, records the gap as idle sample and last_time -     *)
(* active_start as active sample, and makes active_start the packet's      *)
(* time; a packet at a gap of at most IDLE_THRESHOLD changes none of the   *)
(* active and idle statistics nor active_start.  The export of scenario S4 *)
(* has active_count 2 (0.2 s and 0.4 s), idle_count 1 (2.0 s) and          *)
(* sflow_fpackets = total_fpackets / 2 by integer division.                *)
C25_SubflowBoundary == [][C25_BoundaryStep]_vars /\ []C25_S4Record

(* C25 witness: the record of scenario S4 was exported with two bursts.    *)
C25_Witness ==
    /\ HasFlow
    /\ s3 = Len(S4Times)
    /\ hist.call = "export"
    /\ hist.printed = 1
    /\ flow.c_active_count = 2
    /\ flow.c_idle_count = 1

(* What a call of add does to the inter-arrival samples: the packet that   *)
(* opens a new burst adds none, and a sample that is added reaches back at *)
(* most to the start of the current burst.                                 *)
C26_IatStep ==
    (HasFlow /\ nadds' = nadds + 1) =>
        /\ flow'.c_idle_count > flow.c_idle_count =>
             (flow'.c_fiat_count = flow.c_fiat_count
                /\ flow'.c_biat_count = flow.c_biat_count)
        /\ flow'.c_fiat_count > flow.c_fiat_count =>
             flow'.c_fiat_sum - flow.c_fiat_sum
                <= lastpkt'.time - flow'.c_active_start
        /\ flow'.c_biat_count > flow.c_biat_count =>
             flow'.c_biat_sum - flow.c_biat_sum
                <= lastpkt'.time - flow'.c_active_start

(* The longest inter-arrival times against the longest burst once the      *)
(* export has pushed the last burst.                                       *)
C26_MaxIat ==
    (HasFlow /\ hist.call = "export" /\ hist.pushes >= 1) =>
        /\ flow.a_max_fiat <= flow.a_max_active
        /\ flow.a_max_biat <= flow.a_max_active

(* C26: no inter-arrival sample spans a sub-flow boundary: the packet that *)
(* opens a new burst adds no inter-arrival sample and every sample lies    *)
(* inside the current burst, so that at export max_fiat <= max_active and  *)
(* max_biat <= max_active.                                                 *)
C26_IatInsideBurst == [][C26_IatStep]_vars /\ []C26_MaxIat

(* C26 witness: a record was exported for a flow that has a forward        *)
(* inter-arrival sample and went through a sub-flow boundary.              *)
C26_Witness ==
    /\ HasFlow
    /\ hist.call = "export"
    /\ hist.printed >= 1
    /\ flow.c_idle_count >= 1
    /\ flow.c_fiat_count >= 1
    /\ flow.a_max_fiat > 0

(* A flow is stale at now when its last packet is more than FLOW_TIMEOUT   *)
(* old.                                                                    *)
Stale(self, now) == now - get_last_time(self) > FLOW_TIMEOUT

(* The ids of the flows of table t that are stale at now.                  *)
StaleIds(t, now) ==
    {t.flows[k].id : k \in {j \in DOMAIN t.flows : Stale(t.flows[j], now)}}

(* checkidle against the staleness condition and against the expiry test   *)
(* of add, for every flow of the table and every time the clock can move   *)
(* to.                                                                     *)
C27_CheckidleExpiry ==
    \A k \in DOMAIN ftable.flows : \A d \in TableSteps :
        LET self == ftable.flows[k]
            now == clock + d
        IN  /\ checkidle(self, now) <=> Stale(self, now)
            /\ checkidle(self, now)
                 <=> add(self, [self.first_packet EXCEPT !.time = now]).ret = 2

(* A step that is sweep(clock'): no stale flow is left, and the ids that   *)
(* reached the sink are ids of stale flows that were valid.                *)
C27_SweepStep ==
    (/\ phase = "live"
     /\ ningest' = ningest
     /\ phase' # "drained"
     /\ ftable' = sweep(ftable, clock').t
     /\ err' = sweep(ftable, clock').err) =>
        /\ StaleIds(ftable', clock') = {}
        /\ ftable'.sink \ ftable.sink \subseteq StaleIds(ftable, clock')
        /\ \A k \in DOMAIN ftable.flows :
             ftable.flows[k].id \in ftable'.sink \ ftable.sink
                => ftable.flows[k].valid

(* C27: checkidle(now) is true exactly when now - last_time() is greater   *)
(* than FLOW_TIMEOUT, which is exactly when add rejects a packet with time *)
(* now as expired; after sweep(now) no flow with now - last_time() >       *)
(* FLOW_TIMEOUT remains in the table, and each such flow was exported only *)
(* if it was valid.                                                        *)
C27_SweepExpiry == []C27_CheckidleExpiry /\ [][C27_SweepStep]_vars

-----------------------------------------------------------------------------
(* The time-valued fields of the exported record.  A time is a number of   *)
(* ticks, whole or the fraction <<num, den>>, and a second has             *)
(* TicksPerSecond ticks.                                                   *)

(* int(1000000 * x) for the time x = num / den ticks: the microseconds of  *)
(* x without their fractional part.  The quotient is computed on the whole *)
(* seconds and on the rest separately.                                     *)
usec_frac(num, den) ==
    LET d == den * TicksPerSecond
    IN  1000000 * (num \div d) + (1000000 * (num % d)) \div d

(* int(1000000 * x) for a whole number of ticks.                           *)
usec(ticks) == usec_frac(ticks, 1)

(* The microseconds of num / den ticks rounded to the nearest integer.     *)
round_to_int_usec(num, den) ==
    LET d == den * TicksPerSecond
    IN  1000000 * (num \div d) + (2 * 1000000 * (num % d) + d) \div (2 * d)

(* The entries of the export list of Flow.__str__ that are times, the four *)
(* standard deviations left out.                                           *)
export_times(self) ==
    [min_fiat |-> usec(self.a_min_fiat),
     mean_fiat |-> IF self.c_fiat_count > 0
                   THEN usec_frac(self.a_mean_fiat[1], self.a_mean_fiat[2])
                   ELSE usec(self.a_mean_fiat),
     max_fiat |-> usec(self.a_max_fiat),
     min_biat |-> usec(self.a_min_biat),
     mean_biat |-> IF self.c_biat_count > 0
                   THEN usec_frac(self.a_mean_biat[1], self.a_mean_biat[2])
                   ELSE usec(self.a_mean_biat),
     max_biat |-> usec(self.a_max_biat),
     duration |-> usec(self.a_duration),
     min_active |-> usec(self.a_min_active),
     mean_active |-> usec_frac(self.a_mean_active[1], self.a_mean_active[2]),
     max_active |-> usec(self.a_max_active),
     min_idle |-> usec(self.a_min_idle),
     mean_idle |-> IF self.c_idle_count > 0
                   THEN usec_frac(self.a_mean_idle[1], self.a_mean_idle[2])
                   ELSE usec(self.a_mean_idle),
     max_idle |-> usec(self.a_max_idle)]

(* The same entries rounded to the nearest microsecond.                    *)
RoundedTimes(self) ==
    [min_fiat |-> round_to_int_usec(self.a_min_fiat, 1),
     mean_fiat |-> IF self.c_fiat_count > 0
                   THEN round_to_int_usec(self.a_mean_fiat[1],
                                          self.a_mean_fiat[2])
                   ELSE 0,
     max_fiat |-> round_to_int_usec(self.a_max_fiat, 1),
     min_biat |-> round_to_int_usec(self.a_min_biat, 1),
     mean_biat |-> IF self.c_biat_count > 0
                   THEN round_to_int_usec(self.a_mean_biat[1],
                                          self.a_mean_biat[2])
                   ELSE 0,
     max_biat |-> round_to_int_usec(self.a_max_biat, 1),
     duration |-> round_to_int_usec(self.a_duration, 1),
     min_active |-> round_to_int_usec(self.a_min_active, 1),
     mean_active |-> round_to_int_usec(self.a_mean_active[1],
                                       self.a_mean_active[2]),
     max_active |-> round_to_int_usec(self.a_max_active, 1),
     min_idle |-> round_to_int_usec(self.a_min_idle, 1),
     mean_idle |-> IF self.c_idle_count > 0
                   THEN round_to_int_usec(self.a_mean_idle[1],
                                          self.a_mean_idle[2])
                   ELSE 0,
     max_idle |-> round_to_int_usec(self.a_max_idle, 1)]

(* C28: every time-valued field of an exported record is the value in      *)
(* seconds times 1,000,000 rounded to the nearest integer microsecond, not *)
(* truncated; a mean sum / count is rounded to the nearest microsecond.    *)
(* (Minima, means, maxima and the duration; the standard deviations are    *)
(* irrational and are not compared.)                                       *)
C28_RoundedMicroseconds ==
    (HasFlow /\ hist.call = "export" /\ hist.printed = 1) =>
        export_times(flow) = RoundedTimes(flow)

-----------------------------------------------------------------------------
(* Flow.py, the copy of the engine that reads a scapy packet.  It is given *)
(* the same decoded values as flow.py: pkt.time, pkt.len, pkt.proto, the   *)
(* addresses, the header lengths (ihl and dataofs in bytes) and the flag   *)
(* byte.                                                                   *)

(* tcp_set(flags, find) of Flow.py: flags is the string of the letters     *)
(* that pkt.sprintf("%TCP.flags%") prints for the flag byte, one letter    *)
(* for each bit that is set, and find is a letter; flags.find(find) >= 0   *)
(* when the bit of the letter is set in the flag byte.                     *)
FlowPy_tcp_set(flags, find) == BitAnd(flags, find) = find

(* The transition lists (tr) of the state classes of Flow.py.              *)
FlowPy_tr(self, flags, dir, pdir) ==
    CASE self = "TCP_START" ->
            <<[f |-> FlowPy_tcp_set(flags, TCP_SYN) /\ dir = pdir,
               s |-> "TCP_SYN"]>>
      [] self = "TCP_SYN" ->
            <<[f |-> FlowPy_tcp_set(flags, TCP_SYN)
                        /\ FlowPy_tcp_set(flags, TCP_ACK) /\ dir # pdir,
               s |-> "TCP_SYNACK"]>>
      [] self = "TCP_SYNACK" ->
            <<[f |-> FlowPy_tcp_set(flags, TCP_ACK) /\ dir = pdir,
               s |-> "TCP_ESTABLISHED"]>>
      [] self = "TCP_ESTABLISHED" -> <<>>
      [] self = "TCP_FIN" ->
            <<[f |-> FlowPy_tcp_set(flags, TCP_ACK) /\ dir # pdir,
               s |-> "TCP_CLOSED"]>>
      [] self = "TCP_CLOSED" -> <<>>

(* TCP_STATE.update(self, flags, dir, _pdir) of Flow.py.                   *)
FlowPy_TCP_STATE_update(self, flags, dir, pdir) ==
    IF FlowPy_tcp_set(flags, TCP_RST) THEN "TCP_CLOSED"
    ELSE IF FlowPy_tcp_set(flags, TCP_FIN) /\ dir = pdir THEN "TCP_FIN"
    ELSE LET all == FlowPy_tr(self, flags, dir, pdir)
             next_state == SelectSeq(all, LAMBDA e : e.f)
         IN  IF Len(next_state) > 0 THEN next_state[1].s ELSE self

(* Flow.update_tcp_state(self, pkt) of Flow.py.                            *)
FlowPy_update_tcp_state(self, pkt) ==
    LET c == FlowPy_TCP_STATE_update(self.cstate, pkt.flags, "f", self.pdir)
        s == FlowPy_TCP_STATE_update(self.sstate, pkt.flags, "b", self.pdir)
    IN  [self EXCEPT !.cstate = c, !.sstate = s]

(* Flow.update_status(self, pkt) of Flow.py: UDP is protocol 19 here, and  *)
(* the TCP branch takes the header length from get_header_lengths.         *)
FlowPy_update_status(self, pkt) ==
    IF pkt.proto = 19 THEN
        IF self.valid THEN Return(self, -1)
        ELSE LET s1 == IF pkt.len > 8 THEN [self EXCEPT !.has_data = "True"]
                       ELSE self
             IN  IF s1.has_data = "unset" THEN Raise(s1, "AttributeError")
                 ELSE IF s1.a_total_bpackets > 0
                      THEN Return([s1 EXCEPT !.valid = TRUE], -1)
                      ELSE Return(s1, -1)
    ELSE IF pkt.proto = 6 THEN
        IF self.cstate = "TCP_ESTABLISHED" THEN
            LET hlen == pkt.iphlen + pkt.prhlen
                s1 == IF pkt.len > hlen THEN [self EXCEPT !.valid = TRUE]
                      ELSE self
            IN  Return(FlowPy_update_tcp_state(s1, pkt), -1)
        ELSE Return(FlowPy_update_tcp_state(self, pkt), -1)
    ELSE Raise(self, "NotImplementedError")

(* The attribute assignments of Flow.__init__ of Flow.py: those of flow.py *)
(* except that the state classes are the TCP_ ones, the flag tests are     *)
(* Flow.py's, and the four flag counters are assigned for TCP only.        *)
FlowPy_fields(pkt, id) ==
    [Flow_fields(pkt, id) EXCEPT
        !.cstate = IF pkt.proto = 6 THEN "TCP_START" ELSE "unset",
        !.sstate = IF pkt.proto = 6 THEN "TCP_START" ELSE "unset",
        !.a_fpsh_cnt = IF pkt.proto # 6 THEN "unset"
                       ELSE IF FlowPy_tcp_set(pkt.flags, TCP_PSH) THEN 1
                       ELSE 0,
        !.a_bpsh_cnt = IF pkt.proto # 6 THEN "unset" ELSE 0,
        !.a_furg_cnt = IF pkt.proto # 6 THEN "unset"
                       ELSE IF FlowPy_tcp_set(pkt.flags, TCP_URG) THEN 1
                       ELSE 0,
        !.a_burg_cnt = IF pkt.proto # 6 THEN "unset" ELSE 0]

(* Flow.__init__(self, pkt, id) of Flow.py.  get_header_lengths leaves     *)
(* protohlen unassigned for a protocol other than 6 and 19.                *)
FlowPy_init(pkt, id) ==
    IF pkt.proto \notin {6, 19}
    THEN Raise(FlowPy_fields(pkt, id), "UnboundLocalError")
    ELSE FlowPy_update_status(FlowPy_fields(pkt, id), pkt)

(* The forward branch of Flow.add of Flow.py.                              *)
FlowPy_add_forward(self, pkt, now) ==
    LET len == pkt.len
        hlen == pkt.iphlen + pkt.prhlen
        s1 == [self EXCEPT
                 !.a_min_fpktl = IF len < @ \/ @ = 0 THEN len ELSE @,
                 !.a_max_fpktl = IF len > @ THEN len ELSE @,
                 !.a_total_fvolume = @ + len,
                 !.c_fpktl_sqsum = @ + len * len,
                 !.a_total_fpackets = @ + 1,
                 !.a_total_fhlen = @ + hlen]
        diff == now - s1.flast
        s2 == IF s1.flast > 0
              THEN [s1 EXCEPT
                      !.a_min_fiat = IF diff < @ \/ @ = 0 THEN diff ELSE @,
                      !.a_max_fiat = IF diff > @ THEN diff ELSE @,
                      !.c_fiat_sum = @ + diff,
                      !.c_fiat_sqsum = @ + diff * diff,
                      !.c_fiat_count = @ + 1]
              ELSE s1
        s3a == IF pkt.proto = 6 /\ FlowPy_tcp_set(pkt.flags, TCP_PSH)
               THEN [s2 EXCEPT !.a_fpsh_cnt = @ + 1] ELSE s2
        s4 == IF pkt.proto = 6 /\ FlowPy_tcp_set(pkt.flags, TCP_URG)
              THEN [s3a EXCEPT !.a_furg_cnt = @ + 1] ELSE s3a
    IN  Return([s4 EXCEPT !.flast = now], -1)

(* The backward branch of Flow.add of Flow.py; self.burg_cnt is never      *)
(* assigned here either.                                                   *)
FlowPy_add_backward(self, pkt, now) ==
    LET len == pkt.len
        hlen == pkt.iphlen + pkt.prhlen
        s0 == IF self.blast = 0 /\ self.dscp = 0
              THEN [self EXCEPT !.dscp = pkt.dscp] ELSE self
        s1 == [s0 EXCEPT
                 !.a_min_bpktl = IF len < @ \/ @ = 0 THEN len ELSE @,
                 !.a_max_bpktl = IF len > @ THEN len ELSE @,
                 !.a_total_bvolume = @ + len,
                 !.c_bpktl_sqsum = @ + len * len,
                 !.a_total_bpackets = @ + 1,
                 !.a_total_bhlen = @ + hlen]
        diff == now - s1.blast
        s2 == IF s1.blast > 0
              THEN [s1 EXCEPT
                      !.a_min_biat = IF diff < @ \/ @ = 0 THEN diff ELSE @,
                      !.a_max_biat = IF diff > @ THEN diff ELSE @,
                      !.c_biat_sum = @ + diff,
                      !.c_biat_sqsum = @ + diff * diff,
                      !.c_biat_count = @ + 1]
              ELSE s1
        s3a == IF pkt.proto = 6 /\ FlowPy_tcp_set(pkt.flags, TCP_PSH)
               THEN [s2 EXCEPT !.a_bpsh_cnt = @ + 1] ELSE s2
    IN  IF pkt.proto = 6 /\ FlowPy_tcp_set(pkt.flags, TCP_URG)
        THEN IF s3a.burg_cnt = "unset" THEN Raise(s3a, "AttributeError")
             ELSE Return([s3a EXCEPT !.burg_cnt = @ + 1, !.blast = now], -1)
        ELSE Return([s3a EXCEPT !.blast = now], -1)

(* Flow.add(self, pkt) of Flow.py: a reordered packet is logged and then   *)
(* processed like any other; the boundary block is the one of flow.py.     *)
FlowPy_add(self, pkt) ==
    LET now == pkt.time
        last == get_last_time(self)
        diff == now - last
    IN  IF diff > FLOW_TIMEOUT THEN Return(self, 2)
        ELSE IF pkt.proto \notin {6, 19} THEN Raise(self, "UnboundLocalError")
        ELSE IF ~(now >= self.first) THEN Raise(self, "AssertionError")
        ELSE
          LET s1 == [self EXCEPT !.pdir =
                        IF pkt.srcip = self.first_packet.srcip
                        THEN "f" ELSE "b"]
              s2 == IF diff > IDLE_THRESHOLD
                    THEN idle_boundary(s1, now, last, diff) ELSE s1
              r3 == IF s2.pdir = "f" THEN FlowPy_add_forward(s2, pkt, now)
                    ELSE FlowPy_add_backward(s2, pkt, now)
              r4 == FlowPy_update_status(r3.f, pkt)
          IN  IF r3.err # "none" THEN r3
              ELSE IF r4.err # "none" THEN r4
              ELSE Return(r4.f,
                          IF pkt.proto = 6 /\ r4.f.cstate = "TCP_CLOSED"
                                           /\ r4.f.sstate = "TCP_CLOSED"
                          THEN 1 ELSE 0)

-----------------------------------------------------------------------------
(* TCP flows with combined flags: both copies of the engine are given the  *)
(* same packets, in time order, the backward packets without the URG bit.  *)

TcpShapes ==
    {[len |-> 40, flags |-> TCP_SYN],
     [len |-> 40, flags |-> TCP_SYN + TCP_ACK],
     [len |-> 40, flags |-> TCP_ACK],
     [len |-> 60, flags |-> TCP_PSH + TCP_ACK],
     [len |-> 40, flags |-> TCP_FIN + TCP_ACK],
     [len |-> 40, flags |-> TCP_RST],
     [len |-> 40, flags |-> TCP_RST + TCP_ACK],
     [len |-> 60, flags |-> TCP_URG + TCP_ACK]}

TcpInputs ==
    {in \in [d : {0, 1}, swapped : BOOLEAN, shape : TcpShapes] :
        in.swapped => ~BitSet(in.shape.flags, TCP_URG)}

(* The two constructors on the same first packet.                          *)
TcpConstructWith(pkt) ==
    /\ ConstructWith(pkt)
    /\ flow2' = FlowPy_init(pkt, 1)

(* The two add methods on the same packet.                                 *)
TcpAddWith(pkt) ==
    /\ AddWith(pkt)
    /\ flow2' = FlowPy_add(flow2.f, pkt)

TcpConstruct ==
    /\ \E conv \in Conversations, t \in FirstTimes, shape \in TcpShapes :
         TcpConstructWith(Packet(t, conv, FALSE, 6, 0, shape))
    /\ UNCHANGED <<s3, ftable, ningest>>

TcpAdd ==
    /\ phase = "live"
    /\ ret \notin {1, 2}
    /\ flow2.err = "none"
    /\ flow2.ret \notin {1, 2}
    /\ nadds < MaxPackets
    /\ \E in \in TcpInputs :
         TcpAddWith(Packet(clock + in.d, ConvOf(flow.first_packet),
                           in.swapped, 6, 0, in.shape))
    /\ UNCHANGED <<s3, ftable, ningest>>

SpecTcp == Init /\ [][TcpConstruct \/ TcpAdd]_vars

(* C29: a TCP packet with the RST bit set, alone or with other flags and   *)
(* in either direction, that add processes puts both the client half and   *)
(* the server half in CLOSED, and add returns Terminated (1).              *)
C29_RstCloses ==
    [][(HasFlow /\ nadds' = nadds + 1 /\ hist'.class = "processed"
          /\ BitSet(lastpkt'.flags, TCP_RST)) =>
         /\ flow'.cstate = "STATE_TCP_CLOSED"
         /\ flow'.sstate = "STATE_TCP_CLOSED"
         /\ ret' = 1]_vars

(* The state classes of flow.py named by those of Flow.py.                 *)
StateOfFlowPy ==
    [TCP_START |-> "STATE_TCP_START", TCP_SYN |-> "STATE_TCP_SYN",
     TCP_SYNACK |-> "STATE_TCP_SYNACK",
     TCP_ESTABLISHED |-> "STATE_TCP_ESTABLISHED",
     TCP_FIN |-> "STATE_TCP_FIN", TCP_CLOSED |-> "STATE_TCP_CLOSED"]

(* The counters of a flow.                                                 *)
Counters(self) ==
    <<self.a_total_fpackets, self.a_total_fvolume, self.a_total_bpackets,
      self.a_total_bvolume, self.a_fpsh_cnt, self.a_bpsh_cnt,
      self.a_furg_cnt, self.a_burg_cnt, self.a_total_fhlen,
      self.a_total_bhlen, self.c_fiat_count, self.c_biat_count,
      self.c_active_count, self.c_idle_count>>

(* C30: for every TCP packet sequence in non-decreasing time order without *)
(* a backward URG packet, flow.py and Flow.py given the same decoded       *)
(* values produce the same add return codes, the same cstate and sstate    *)
(* after every packet, the same valid flag and the same counters.          *)
C30_CopiesAgree ==
    (HasFlow /\ flow.a_proto = 6 /\ "valid" \in DOMAIN flow2.f) =>
        /\ ret = flow2.ret
        /\ err = flow2.err
        /\ flow.cstate = StateOfFlowPy[flow2.f.cstate]
        /\ flow.sstate = StateOfFlowPy[flow2.f.sstate]
        /\ flow.valid = flow2.f.valid
        /\ Counters(flow) = Counters(flow2.f)

(* C31: in a flow without a sub-flow boundary, whatever the time of its    *)
(* first packet (0 included), the number of forward inter-arrival samples  *)
(* is total_fpackets - 1 and the number of backward inter-arrival samples  *)
(* is total_bpackets - 1, or 0 when there is no backward packet.           *)
C31_IatCounts ==
    (HasFlow /\ flow.c_idle_count = 0) =>
        /\ flow.c_fiat_count = flow.a_total_fpackets - 1
        /\ flow.c_biat_count = IF flow.a_total_bpackets >= 1
                               THEN flow.a_total_bpackets - 1 ELSE 0

-----------------------------------------------------------------------------
(* Direction of a packet: a UDP flow between two hosts, or between two     *)
(* ports of one host, fed packets with the endpoints of its first packet   *)
(* as they are or swapped.                                                 *)

HostConversations ==
    {[srcip |-> "A", srcport |-> 1, dstip |-> "B", dstport |-> 2],
     [srcip |-> "A", srcport |-> 1, dstip |-> "A", dstport |-> 2]}

HostSteps == {0, 1, IDLE_THRESHOLD + 1}

HostShapes == {[len |-> 60, flags |-> 0], [len |-> 61, flags |-> 0]}

HostConstruct ==
    /\ \E conv \in HostConversations, t \in FirstTimes, shape \in HostShapes :
         ConstructWith(Packet(t, conv, FALSE, 17, 0, shape))
    /\ UNCHANGED <<s3, ftable, ningest, flow2>>

HostAdd ==
    /\ phase = "live"
    /\ nexports = 0
    /\ nadds < MaxPackets
    /\ \E d \in HostSteps, swapped \in BOOLEAN, shape \in HostShapes :
         AddWith(Packet(clock + d, ConvOf(flow.first_packet), swapped,
                        17, 0, shape))
    /\ UNCHANGED <<s3, ftable, ningest, flow2>>

SpecHost == Init /\ [][HostConstruct \/ HostAdd \/ Export]_vars

(* C32: a processed packet whose (srcip, srcport) is the first packet's    *)
(* (dstip, dstport) is counted in the backward counters and not in the     *)
(* forward ones, and a packet with the first packet's (srcip, srcport) is  *)
(* counted in the forward counters and not in the backward ones, also when *)
(* both endpoints have the same IP address.                                *)
C32_DirectionByEndpoint ==
    [][(HasFlow /\ nadds' = nadds + 1 /\ hist'.class = "processed"
          /\ err' = "none") =>
         LET p == lastpkt'
             fp == flow.first_packet
             swapped == p.srcip = fp.dstip /\ p.srcport = fp.dstport
             same == p.srcip = fp.srcip /\ p.srcport = fp.srcport
         IN  /\ swapped =>
                  /\ flow'.a_total_bpackets = flow.a_total_bpackets + 1
                  /\ flow'.a_total_bvolume = flow.a_total_bvolume + p.len
                  /\ flow'.a_total_fpackets = flow.a_total_fpackets
                  /\ flow'.a_total_fvolume = flow.a_total_fvolume
             /\ same =>
                  /\ flow'.a_total_fpackets = flow.a_total_fpackets + 1
                  /\ flow'.a_total_fvolume = flow.a_total_fvolume + p.len
                  /\ flow'.a_total_bpackets = flow.a_total_bpackets
                  /\ flow'.a_total_bvolume = flow.a_total_bvolume]_vars

-----------------------------------------------------------------------------
(* The table fed the packets that open and close a TCP connection, in      *)
(* either direction.                                                       *)

CloseShapes ==
    {[len |-> 40, flags |-> TCP_SYN], [len |-> 40, flags |-> TCP_ACK],
     [len |-> 40, flags |-> TCP_FIN], [len |-> 40, flags |-> TCP_RST]}

CloseIngest ==
    /\ phase \in {"none", "live"}
    /\ ningest < MaxIngest
    /\ \E conv \in Conversations, d \in {0, 1}, swapped \in BOOLEAN,
          shape \in CloseShapes :
         IngestStep(Packet(clock + d, conv, swapped, 6, 0, shape))
    /\ UNCHANGED <<flow, nadds, nexports, hist, unit, s3, flow2>>

SpecClose == Init /\ [][CloseIngest \/ Sweep \/ Drain]_vars

BothClosed(self) ==
    /\ self.a_proto = 6
    /\ self.cstate = "STATE_TCP_CLOSED"
    /\ self.sstate = "STATE_TCP_CLOSED"

(* C33: between packet ingestions no flow in the table has both cstate and *)
(* sstate CLOSED: the packet that closes both halves, the first packet of  *)
(* the flow included, has the engine report Terminated and remove the      *)
(* flow.                                                                   *)
C33_NoLiveClosedFlow ==
    phase = "live" => \A k \in DOMAIN ftable.flows : ~BothClosed(ftable.flows[k])

-----------------------------------------------------------------------------
(* The clean close: a TCP flow brought into some state by its first packet *)
(* and up to MaxPackets - 1 more, then fed forward FIN, backward ACK,      *)
(* backward FIN, forward ACK.  s3 counts the packets of the close fed so   *)
(* far.                                                                    *)

FinShapes ==
    {[len |-> 40, flags |-> TCP_SYN], [len |-> 40, flags |-> TCP_SYN + TCP_ACK],
     [len |-> 40, flags |-> TCP_ACK], [len |-> 40, flags |-> TCP_FIN],
     [len |-> 40, flags |-> TCP_RST], DataShape}

FinFlags == {TCP_FIN, TCP_FIN + TCP_ACK}

(* The four packets of the close, fin being the flag byte of the two FIN   *)
(* packets.                                                                *)
ClosePackets(fin) ==
    <<[swapped |-> FALSE, shape |-> [len |-> 40, flags |-> fin]],
      [swapped |-> TRUE,  shape |-> [len |-> 40, flags |-> TCP_ACK]],
      [swapped |-> TRUE,  shape |-> [len |-> 40, flags |-> fin]],
      [swapped |-> FALSE, shape |-> [len |-> 40, flags |-> TCP_ACK]]>>

FinConstruct ==
    /\ \E conv \in Conversations, t \in FirstTimes, shape \in FinShapes :
         ConstructWith(Packet(t, conv, FALSE, 6, 0, shape))
    /\ UNCHANGED <<s3, ftable, ningest, flow2>>

FinPrefix ==
    /\ phase = "live"
    /\ s3 = 0
    /\ ret \notin {1, 2}
    /\ nadds < MaxPackets - 1
    /\ \E d \in {0, 1}, swapped \in BOOLEAN, shape \in FinShapes :
         AddWith(Packet(clock + d, ConvOf(flow.first_packet), swapped,
                        6, 0, shape))
    /\ UNCHANGED <<s3, ftable, ningest, flow2>>

FinClose ==
    /\ phase = "live"
    /\ s3 \in 0..3
    /\ ret \notin {1, 2}
    /\ \E d \in {0, 1, IDLE_THRESHOLD + 1}, fin \in FinFlags :
         AddWith(Packet(clock + d, ConvOf(flow.first_packet),
                        ClosePackets(fin)[s3 + 1].swapped, 6, 0,
                        ClosePackets(fin)[s3 + 1].shape))
    /\ s3' = s3 + 1
    /\ UNCHANGED <<ftable, ningest, flow2>>

SpecFin == Init /\ [][FinConstruct \/ FinPrefix \/ FinClose]_vars

(* C34: of the four packets of a clean close (forward FIN, backward ACK,   *)
(* backward FIN, forward ACK; FIN with or without ACK), fed to a TCP flow  *)
(* in any state, the backward ACK leaves cstate CLOSED, the forward ACK    *)
(* leaves sstate CLOSED, and add returns 1 on the forward ACK and on none  *)
(* of the three packets before it.                                         *)
C34_CleanClose ==
    [][(HasFlow /\ s3' = s3 + 1) =>
         /\ err' = "none"
         /\ s3' = 2 => flow'.cstate = "STATE_TCP_CLOSED"
         /\ s3' = 4 => (flow'.sstate = "STATE_TCP_CLOSED" /\ ret' = 1)
         /\ s3' \in 1..3 => ret' = 0]_vars

====
